---------------------------- MODULE Spec2Model ----------------------------
(***************************************************************************)
(* Model of the koishi plugin cat-raising (src/unnamed/part_003): the      *)
(* on-message handler (admission gates, duplicate check, enrichment,       *)
(* helper note, forward, ledger push, danmaku) and the message-deleted     *)
(* handler, as asynchronous tasks that interleave at their await points.   *)
(*                                                                         *)
(* Text is a sequence of characters.  A character is a one-token string:   *)
(* ASCII characters stand for themselves, "nl" is the line feed, "fcolon"  *)
(* the full-width colon, and a CJK character is named by its pinyin:       *)
(*   fa 发  yan 言  bang 榜  dan 单  tou 投  gao 稿  shu 数                *)
(*   qian1 签  dao 到  da 打  ka 卡  shen 神  jin 金  diao 掉  luo 落      *)
(*   mao 猫  zuan 钻  shi 石  bo 播  jian 间  hao 号  fang 房  zhi 直      *)
(*   ling 零 yi 一 er 二 liang 两 san 三 si 四 wu 五 liu 六 qi 七 ba 八    *)
(*   jiu 九 shi10 十 bai 百 qian 千 wan 万 yi8 亿                          *)
(*   yue 月 ri 日 mei 每 wan3 晚 dian 点 shi2 时 shang 上 zhong 中 xia 下  *)
(*   xun 旬 ban 半 fen 分 sheng 生 zhou 周 nian 年 xin 新 yi1 衣 huo 活    *)
(*   dong 动 ji 级 deng 灯 pai 牌 wei 未 zhi1 知 wu2 无 xian 限 zhi4 制      *)
(***************************************************************************)
EXTENDS Integers, Sequences, FiniteSets, TLC

(***************************************************************************)
(* Character classes of the regular expressions                            *)
(***************************************************************************)
Digit == {"0", "1", "2", "3", "4", "5", "6", "7", "8", "9"}

\* \w of a JavaScript regular expression without the u flag: [A-Za-z0-9_]
WordChar == Digit \cup {"w", "W", "a", "b", "_"}

\* \s, and what String.prototype.trim removes
Space == {" ", "nl", "tab"}

IsDigitAt(t, i) == i >= 1 /\ i <= Len(t) /\ t[i] \in Digit

IsWordAt(t, i) == i >= 1 /\ i <= Len(t) /\ t[i] \in WordChar

\* \b holds between positions i-1 and i
BoundaryAt(t, i) == IsWordAt(t, i - 1) # IsWordAt(t, i)

\* String.prototype.includes
Includes(t, k) ==
  \E i \in 1..(Len(t) - Len(k) + 1) : SubSeq(t, i, i + Len(k) - 1) = k

\* k occurs in t at position i
MatchesAt(t, i, k) ==
  i >= 1 /\ i + Len(k) - 1 <= Len(t) /\ SubSeq(t, i, i + Len(k) - 1) = k

\* the length of the longest run of characters of class cls starting at i
RECURSIVE RunLen(_, _, _)
RunLen(t, i, cls) ==
  IF i >= 1 /\ i <= Len(t) /\ t[i] \in cls THEN 1 + RunLen(t, i + 1, cls) ELSE 0

Min(a, b) == IF a < b THEN a ELSE b

\* String.prototype.trim() is the empty string
IsBlank(t) == \A i \in 1..Len(t) : t[i] \in Space

\* Number.prototype.toString of a natural number
RECURSIVE ToStr(_)
ToStr(n) ==
  LET d == <<"0", "1", "2", "3", "4", "5", "6", "7", "8", "9">>
  IN  IF n < 10 THEN <<d[n + 1]>> ELSE ToStr(n \div 10) \o <<d[(n % 10) + 1]>>

\* parseInt of a digit string
RECURSIVE ToNat(_)
ToNat(s) ==
  LET v == [c \in Digit |-> CHOOSE k \in 0..9 : ToStr(k) = <<c>>]
  IN  IF s = <<>> THEN 0 ELSE 10 * ToNat(SubSeq(s, 1, Len(s) - 1)) + v[s[Len(s)]]

(***************************************************************************)
(* preprocessChineseNumerals                                               *)
(***************************************************************************)
numMap ==
  [c \in {"ling", "yi", "er", "liang", "san", "si", "wu", "liu", "qi", "ba", "jiu"} |->
     CASE c = "ling" -> 0 [] c = "yi" -> 1 [] c = "er" -> 2 [] c = "liang" -> 2
       [] c = "san" -> 3 [] c = "si" -> 4 [] c = "wu" -> 5 [] c = "liu" -> 6
       [] c = "qi" -> 7 [] c = "ba" -> 8 [] c = "jiu" -> 9]

unitMap ==
  [c \in {"shi10", "bai", "qian", "wan", "yi8"} |->
     CASE c = "shi10" -> [value |-> 10, isSection |-> FALSE]
       [] c = "bai" -> [value |-> 100, isSection |-> FALSE]
       [] c = "qian" -> [value |-> 1000, isSection |-> FALSE]
       [] c = "wan" -> [value |-> 10000, isSection |-> TRUE]
       [] c = "yi8" -> [value |-> 100000000, isSection |-> TRUE]]

\* the character class of chineseNumRegex
NumeralChar == DOMAIN numMap \cup DOMAIN unitMap

\* the for-loop of the replace callback, from character i of match on
RECURSIVE NumeralLoop(_, _, _, _, _)
NumeralLoop(match, i, total, sectionTotal, currentNum) ==
  IF i > Len(match) THEN total + sectionTotal + currentNum
  ELSE LET char == match[i] IN
    IF char \in DOMAIN numMap
      THEN NumeralLoop(match, i + 1, total, sectionTotal, numMap[char])
      ELSE LET value == unitMap[char].value
               cur == IF value = 10 /\ currentNum = 0 THEN 1 ELSE currentNum
               sec == sectionTotal + cur * value
           IN  IF unitMap[char].isSection
                 THEN NumeralLoop(match, i + 1, total + sec, 0, 0)
                 ELSE NumeralLoop(match, i + 1, total, sec, 0)

\* the replace callback: !numMap[match] is true of an absent key and of the value 0
NumeralReplace(match) ==
  IF /\ Len(match) = 1
     /\ (match[1] \notin DOMAIN numMap \/ numMap[match[1]] = 0)
     /\ match[1] \notin DOMAIN unitMap
    THEN match
    ELSE ToStr(NumeralLoop(match, 1, 0, 0, 0))

RECURSIVE preprocessChineseNumerals(_)
preprocessChineseNumerals(text) ==
  IF text = <<>> THEN <<>>
  ELSE LET n == RunLen(text, 1, NumeralChar) IN
    IF n = 0 THEN <<Head(text)>> \o preprocessChineseNumerals(Tail(text))
    ELSE NumeralReplace(SubSeq(text, 1, n))
           \o preprocessChineseNumerals(SubSeq(text, n + 1, Len(text)))

(***************************************************************************)
(* extractAllRoomIds                                                       *)
(***************************************************************************)
\* text.replace(/<[^>]+>/g, '')
RECURSIVE StripTags(_)
StripTags(text) ==
  IF text = <<>> THEN <<>>
  ELSE LET closes == {j \in 3..Len(text) : text[j] = ">" /\ \A k \in 2..(j - 1) : text[k] # ">"}
       IN  IF Head(text) = "<" /\ closes # {}
             THEN StripTags(SubSeq(text, (CHOOSE j \in closes : TRUE) + 1, Len(text)))
             ELSE <<Head(text)>> \o StripTags(Tail(text))

RoomLabels == {<<"bo", "jian", "hao">>, <<"fang", "jian", "hao">>, <<"zhi", "bo", "jian">>}

\* captures of /(?:播间号|房间号|直播间)[:：\s]*(\d{3,15})/g
LabelledIds(t) ==
  LET sep == {":", "fcolon"} \cup Space
      at(i) == LET j == i + 3 + RunLen(t, i + 3, sep) IN
                 SubSeq(t, j, j + Min(RunLen(t, j, Digit), 15) - 1)
  IN  {at(i) : i \in {i \in 1..Len(t) :
         /\ \E l \in RoomLabels : MatchesAt(t, i, l)
         /\ RunLen(t, i + 3 + RunLen(t, i + 3, sep), Digit) >= 3}}

\* captures of /\b(\d{6,15})\b/g : the whole digit runs of 6 to 15 digits
\* with no word character on either side
StandaloneIds(t) ==
  {SubSeq(t, i, i + RunLen(t, i, Digit) - 1) : i \in {i \in 1..Len(t) :
     /\ IsDigitAt(t, i) /\ ~IsWordAt(t, i - 1)
     /\ RunLen(t, i, Digit) \in 6..15
     /\ ~IsWordAt(t, i + RunLen(t, i, Digit))}}

\* the Set foundIds, filled by both patterns
extractAllRoomIds(text) ==
  LET sanitizedText == StripTags(text)
  IN  LabelledIds(sanitizedText) \cup StandaloneIds(sanitizedText)

(***************************************************************************)
(* extractDateTime                                                         *)
(***************************************************************************)
\* null where a string is expected: no text holds the character "null"
Null == <<"null">>

\* the least element of a non-empty set of positions: where a non-global
\* String.prototype.match matches
First(S) == CHOOSE i \in S : \A j \in S : i <= j

\* String.prototype.padStart(2, '0')
PadStart2(s) == IF Len(s) < 2 THEN <<"0">> \o s ELSE s

\* String.prototype.trim
RECURSIVE Trim(_)
Trim(s) ==
  IF s = <<>> THEN s
  ELSE IF Head(s) \in Space THEN Trim(Tail(s))
  ELSE IF s[Len(s)] \in Space THEN Trim(SubSeq(s, 1, Len(s) - 1))
  ELSE s

\* \d{1,2} followed by something that is no digit matches at i exactly when
\* the digit run at i has one or two digits
D12(t, i) == RunLen(t, i, Digit) \in {1, 2}

\* the position after \d{1,2}\s* matched from i
AfterD12(t, i) ==
  LET j == i + RunLen(t, i, Digit) IN j + RunLen(t, j, Space)

\* the position after \s* matched from j
SkipSpace(t, j) == j + RunLen(t, j, Space)

\* the capture of a greedy \d{1,2} at j
Cap12(t, j) == SubSeq(t, j, j + Min(RunLen(t, j, Digit), 2) - 1)

\* /(\d{1,2})\s*[月.]\s*(\d{1,2})\s*日?/
MonthDayAt(t, i) ==
  /\ D12(t, i)
  /\ MatchesAt(t, AfterD12(t, i), <<"yue">>) \/ MatchesAt(t, AfterD12(t, i), <<".">>)
  /\ IsDigitAt(t, SkipSpace(t, AfterD12(t, i) + 1))

\* /每晚\s*(\d{1,2})\s*[点时]/
NightlyAt(t, i) ==
  /\ MatchesAt(t, i, <<"mei", "wan3">>)
  /\ D12(t, SkipSpace(t, i + 2))
  /\ \/ MatchesAt(t, AfterD12(t, SkipSpace(t, i + 2)), <<"dian">>)
     \/ MatchesAt(t, AfterD12(t, SkipSpace(t, i + 2)), <<"shi2">>)

\* /(\d{1,2}\s*月\s*(?:上|中|下)旬)/
DecadeAt(t, i) ==
  /\ D12(t, i)
  /\ MatchesAt(t, AfterD12(t, i), <<"yue">>)
  /\ \E c \in {"shang", "zhong", "xia"} :
       MatchesAt(t, SkipSpace(t, AfterD12(t, i) + 1), <<c, "xun">>)

\* /(\d{1,2})[:：.点时]\s*(\d{1,2})/
HourMinuteAt(t, i) ==
  /\ D12(t, i)
  /\ \E c \in {":", "fcolon", ".", "dian", "shi2"} :
       MatchesAt(t, i + RunLen(t, i, Digit), <<c>>)
  /\ IsDigitAt(t, SkipSpace(t, i + RunLen(t, i, Digit) + 1))

\* /(\d{1,2})\s*点\s*半/
HalfPastAt(t, i) ==
  /\ D12(t, i)
  /\ MatchesAt(t, AfterD12(t, i), <<"dian">>)
  /\ MatchesAt(t, SkipSpace(t, AfterD12(t, i) + 1), <<"ban">>)

\* /\b(\d{1,2})\s*[.点时](?!\d)/
HourOnlyAt(t, i) ==
  /\ BoundaryAt(t, i)
  /\ D12(t, i)
  /\ \E c \in {".", "dian", "shi2"} : MatchesAt(t, AfterD12(t, i), <<c>>)
  /\ ~IsDigitAt(t, AfterD12(t, i) + 1)

\* /(\d{1,2})\s*分/
MinuteOnlyAt(t, i) == D12(t, i) /\ MatchesAt(t, AfterD12(t, i), <<"fen">>)

\* /.*?(?:生日|周年|新衣|活动).*/
HasOccasion(t) ==
  \E k \in {<<"sheng", "ri">>, <<"zhou", "nian">>, <<"xin", "yi1">>, <<"huo", "dong">>} :
    Includes(t, k)

\* MinuteOnlyTime with a slip: >= where the code has >, so a stated minute
\* equal to the minute of the clock is read as the next hour
MinuteOnlyTimeAtOrAfter(match1, now) ==
  LET minuteVal == ToNat(match1)
      hourVal == IF now.minutes >= minuteVal THEN now.hours + 1 ELSE now.hours
  IN  PadStart2(ToStr(hourVal % 24)) \o <<":">> \o PadStart2(match1)

\* the body of the minutes-only branch; match1 is match[1], the digits before 分
MinuteOnlyTime(match1, now) ==
  LET minuteVal == ToNat(match1)
      hourVal == IF now.minutes > minuteVal THEN now.hours + 1 ELSE now.hours
  IN  PadStart2(ToStr(hourVal % 24)) \o <<":">> \o PadStart2(match1)

\* now is the wall clock: [hours |-> now.getHours(), minutes |-> now.getMinutes()]
extractDateTime(line, now) ==
  LET P(At(_, _)) == {i \in 1..Len(line) : At(line, i)}
      m1(i) == SubSeq(line, i, i + RunLen(line, i, Digit) - 1)
  IN
  IF P(MonthDayAt) # {} THEN
    LET i == First(P(MonthDayAt))
    IN  m1(i) \o <<"yue">> \o Cap12(line, SkipSpace(line, AfterD12(line, i) + 1)) \o <<"ri">>
  ELSE IF P(NightlyAt) # {} THEN
    LET i == First(P(NightlyAt))
    IN  <<"mei", "wan3", " ">> \o PadStart2(m1(SkipSpace(line, i + 2))) \o <<":", "0", "0">>
  ELSE IF P(DecadeAt) # {} THEN
    LET i == First(P(DecadeAt))
    IN  SubSeq(line, i, SkipSpace(line, AfterD12(line, i) + 1) + 1)
  ELSE IF P(HourMinuteAt) # {} THEN
    LET i == First(P(HourMinuteAt))
    IN  PadStart2(m1(i)) \o <<":">>
          \o PadStart2(Cap12(line, SkipSpace(line, i + RunLen(line, i, Digit) + 1)))
  ELSE IF P(HalfPastAt) # {} THEN
    PadStart2(m1(First(P(HalfPastAt)))) \o <<":", "3", "0">>
  ELSE IF P(HourOnlyAt) # {} THEN
    PadStart2(m1(First(P(HourOnlyAt)))) \o <<":", "0", "0">>
  ELSE IF P(MinuteOnlyAt) # {} THEN
    MinuteOnlyTime(m1(First(P(MinuteOnlyAt))), now)
  ELSE IF HasOccasion(line) THEN Trim(line)
  ELSE Null

(***************************************************************************)
(* extractRewards                                                          *)
(***************************************************************************)
Pow10(k) == CASE k = 0 -> 1 [] k = 1 -> 10 [] k = 2 -> 100 [] k = 3 -> 1000 [] OTHER -> 10000

\* the amount group (\d+\.?\d*w\+?|\b\d{3,5}\b) matched at q: <<>> when it does
\* not match, else <<[end, amount]>> with end the position after the group and
\* amount the value computed from amountStr.  parseFloat(x) * 10000 is computed
\* exactly for up to four fraction digits (more are cut off).
AmountAt(t, q) ==
  LET r1 == RunLen(t, q, Digit)
      p1 == q + r1
      hasDot == MatchesAt(t, p1, <<".">>)
      p2 == IF hasDot THEN p1 + 1 ELSE p1
      r2 == IF hasDot THEN RunLen(t, p2, Digit) ELSE 0
      p3 == p2 + r2
      frac == SubSeq(t, p2, p2 + Min(r2, 4) - 1)
  IN  IF r1 >= 1 /\ (MatchesAt(t, p3, <<"w">>) \/ MatchesAt(t, p3, <<"W">>))
        THEN <<[end |-> IF MatchesAt(t, p3 + 1, <<"+">>) THEN p3 + 2 ELSE p3 + 1,
                amount |-> ToNat(SubSeq(t, q, p1 - 1)) * 10000
                             + ToNat(frac) * Pow10(4 - Len(frac))]>>
      ELSE IF BoundaryAt(t, q) /\ r1 \in 3..5 /\ ~IsWordAt(t, p1)
        THEN <<[end |-> p1, amount |-> ToNat(SubSeq(t, q, p1 - 1))]>>
      ELSE <<>>

\* the position after (?:发\s*)? matched at p
AfterFa(t, p) == IF MatchesAt(t, p, <<"fa">>) THEN SkipSpace(t, p + 1) ELSE p

\* the position after (?:神金|钻石|猫猫钻)? matched at e
AfterUnit(t, e) ==
  IF MatchesAt(t, e, <<"shen", "jin">>) \/ MatchesAt(t, e, <<"zuan", "shi">>) THEN e + 2
  ELSE IF MatchesAt(t, e, <<"mao", "mao", "zuan">>) THEN e + 3
  ELSE e

\* (\d{1,2})\s*级(?:灯牌)?\s* matches at i
LevelAt(t, i) == D12(t, i) /\ MatchesAt(t, AfterD12(t, i), <<"ji">>)

\* the position after (\d{1,2})\s*级(?:灯牌)?\s* matched at i
AfterLevel(t, i) ==
  LET j == AfterD12(t, i) + 1
  IN  SkipSpace(t, IF MatchesAt(t, j, <<"deng", "pai">>) THEN j + 2 ELSE j)

\* one regex.exec attempt at position i: <<>> or <<[end, condition, amount]>>;
\* the level prefix is tried first, then the match without it
RewardMatchAt(t, i) ==
  LET withLevel == IF LevelAt(t, i) THEN AmountAt(t, AfterFa(t, AfterLevel(t, i))) ELSE <<>>
      plain == AmountAt(t, AfterFa(t, i))
  IN  IF withLevel # <<>>
        THEN <<[end |-> AfterUnit(t, withLevel[1].end),
                condition |-> SubSeq(t, i, i + RunLen(t, i, Digit) - 1) \o <<"ji", "deng", "pai">>,
                amount |-> withLevel[1].amount]>>
      ELSE IF plain # <<>>
        THEN <<[end |-> AfterUnit(t, plain[1].end),
                condition |-> <<"wu2", "xian", "zhi4">>,
                amount |-> plain[1].amount]>>
      ELSE <<>>

\* the while-loop over regex.exec, with regex.lastIndex at position pos
RECURSIVE RewardsFrom(_, _)
RewardsFrom(line, pos) ==
  LET Body(match) ==
        (IF match.amount > 0
           THEN <<[amount |-> match.amount, condition |-> match.condition]>>
           ELSE <<>>)
        \o RewardsFrom(line, match.end)
      Exec(hits) == IF hits = {} THEN <<>> ELSE Body(RewardMatchAt(line, First(hits))[1])
  IN  Exec({i \in pos..Len(line) : RewardMatchAt(line, i) # <<>>})

extractRewards(line) == RewardsFrom(line, 1)

(***************************************************************************)
(* parseEventFromText                                                      *)
(***************************************************************************)
\* text.split('\n')
RECURSIVE Split(_)
Split(text) ==
  LET nls == {i \in 1..Len(text) : text[i] = "nl"}
  IN  IF nls = {} THEN <<text>>
      ELSE <<SubSeq(text, 1, First(nls) - 1)>> \o Split(SubSeq(text, First(nls) + 1, Len(text)))

\* Array.prototype.filter(line => line.trim())
RECURSIVE FilterNonBlank(_)
FilterNonBlank(lines) ==
  IF lines = <<>> THEN <<>>
  ELSE (IF IsBlank(Head(lines)) THEN <<>> ELSE <<Head(lines)>>) \o FilterNonBlank(Tail(lines))

\* FirstDateTime with a slip: the loop has no break, so the time of the last
\* line that states one is kept
RECURSIVE DateTimeNoBreak(_, _)
DateTimeNoBreak(lines, now) ==
  IF lines = <<>> THEN Null
  ELSE IF DateTimeNoBreak(Tail(lines), now) # Null THEN DateTimeNoBreak(Tail(lines), now)
  ELSE extractDateTime(Head(lines), now)

\* the for-loop that stops at the first line with a time
RECURSIVE FirstDateTime(_, _)
FirstDateTime(lines, now) ==
  IF lines = <<>> THEN Null
  ELSE IF extractDateTime(Head(lines), now) # Null THEN extractDateTime(Head(lines), now)
  ELSE FirstDateTime(Tail(lines), now)

\* lines.flatMap(line => extractRewards(line))
RECURSIVE FlatRewards(_)
FlatRewards(lines) ==
  IF lines = <<>> THEN <<>> ELSE extractRewards(Head(lines)) \o FlatRewards(Tail(lines))

TimeUnknown == <<"shi2", "jian", "wei", "zhi1">>

\* null is the empty sequence, an event the one-element sequence holding it
parseEventFromText(text, now) ==
  LET Event(globalDateTime, allRewards) ==
        IF Len(allRewards) > 0
          THEN <<[dateTime |-> IF globalDateTime # Null THEN globalDateTime ELSE TimeUnknown,
                  rewards |-> allRewards]>>
          ELSE <<>>
      Parse(lines) == Event(FirstDateTime(lines, now), FlatRewards(lines))
  IN  Parse(FilterNonBlank(Split(text)))

(***************************************************************************)
(* Configuration and constants of the plugin                               *)
(***************************************************************************)
HARD_REJECTION_KEYWORDS == {<<"fa", "yan", "bang", "dan">>, <<"tou", "gao", "shu", ":">>}

REJECTION_KEYWORDS == {<<"qian1", "dao">>, <<"da", "ka">>}

OVERRIDE_KEYWORDS == {<<"shen", "jin">>, <<"fa">>}

\* /神金|发|掉落|猫猫钻|w|\b\d{3,5}\b|一千|一百|十|九|八|七|六|五|四|三|两|二|一/i .test(t)
TRIGGER_REGEX(t) ==
  \/ \E k \in {<<"shen", "jin">>, <<"fa">>, <<"diao", "luo">>, <<"mao", "mao", "zuan">>,
               <<"w">>, <<"W">>, <<"yi", "qian">>, <<"yi", "bai">>, <<"shi10">>, <<"jiu">>,
               <<"ba">>, <<"qi">>, <<"liu">>, <<"wu">>, <<"si">>, <<"san">>, <<"liang">>,
               <<"er">>, <<"yi">>} : Includes(t, k)
  \/ \E i \in 1..Len(t) :
       /\ BoundaryAt(t, i) /\ IsDigitAt(t, i)
       /\ RunLen(t, i, Digit) \in 3..5
       /\ ~IsWordAt(t, i + RunLen(t, i, Digit))

\* config.monitorGroups: g1 sends helper and warning messages, g2 does not
monitorGroups ==
  <<[groupId |-> "g1", sendHelperMessages |-> TRUE],
    [groupId |-> "g2", sendHelperMessages |-> FALSE]>>

\* config.targetQQ
targetQQ == "target"

\* config.historySize, scaled down
historySize == 2


(***************************************************************************)
(* Inputs                                                                  *)
(***************************************************************************)
\* the number of messages the host delivers
MaxMsg == 3

\* the number of deletion handlers that run at the same time
MaxDel == 2

\* the number of handlers suspended at an await at the same time
MaxInFlight == 2

\* session.channelId: the two monitored groups and a channel that is not monitored
Channels == {"g1", "g2", "other"}

\* message texts (session.content, equal to session.stripped.content for plain text):
\*    1  房间号123发2w              room 123, no time, strong context
\*    2  房间号456 8点发2w          room 456, time 08:00
\*    3  签到 房间号123 3000        soft rejection without override
\*    4  签到 房间号123发2w         soft rejection with the override 发
\*    5  发言榜单 房间号456 8点发2w hard rejection, with override, room, time, reward
\*    6  123456789 987654321 发2w   two standalone room ids
\*    7  发2w                       no room id
\*    8  房间号123发2w 110+         a number of three digits followed by +
\*    9  房间号123 3000             reward, no strong context, no time
\*   10  房间号456 3000 8点         reward and time, no strong context
\*   11  (one space)                blank
\*   12  房间号                     no trigger word
\*   13  房间号123456发             no reward
\*   14  打卡 房间号123 3000        soft rejection without override
\*   15  打卡 房间号123 神金2w      soft rejection with the override 神金
Contents ==
  <<<<"fang", "jian", "hao", "1", "2", "3", "fa", "2", "w">>,
    <<"fang", "jian", "hao", "4", "5", "6", " ", "8", "dian", "fa", "2", "w">>,
    <<"qian1", "dao", " ", "fang", "jian", "hao", "1", "2", "3", " ", "3", "0", "0", "0">>,
    <<"qian1", "dao", " ", "fang", "jian", "hao", "1", "2", "3", "fa", "2", "w">>,
    <<"fa", "yan", "bang", "dan", " ", "fang", "jian", "hao", "4", "5", "6", " ",
      "8", "dian", "fa", "2", "w">>,
    <<"1", "2", "3", "4", "5", "6", "7", "8", "9", " ",
      "9", "8", "7", "6", "5", "4", "3", "2", "1", " ", "fa", "2", "w">>,
    <<"fa", "2", "w">>,
    <<"fang", "jian", "hao", "1", "2", "3", "fa", "2", "w", " ", "1", "1", "0", "+">>,
    <<"fang", "jian", "hao", "1", "2", "3", " ", "3", "0", "0", "0">>,
    <<"fang", "jian", "hao", "4", "5", "6", " ", "3", "0", "0", "0", " ", "8", "dian">>,
    <<" ">>,
    <<"fang", "jian", "hao">>,
    <<"fang", "jian", "hao", "1", "2", "3", "4", "5", "6", "fa">>,
    <<"da", "ka", " ", "fang", "jian", "hao", "1", "2", "3", " ", "3", "0", "0", "0">>,
    <<"da", "ka", " ", "fang", "jian", "hao", "1", "2", "3", " ", "shen", "jin", "2", "w">>>>

\* new Date() as seen by extractDateTime
Clocks == {[hours |-> 23, minutes |-> 50]}

\* undefined where a message id is expected; message ids are positive
Undefined == 0

\* ids the host gives to the messages the bot sends because of source message m
HelperId(m) == 100 + m
ForwardId(m) == 200 + m
WarningId(m) == 300 + m

\* outcomes of session.send / bot.sendMessage: rejects, resolves to [], resolves to [id]
SendOutcomes == {"throw", "empty", "ok"}

\* responses of ctx.http.get: rejects, or resolves to {code, data?}; code is
\* 0 or not, and the data field (data.uid, data.video) is present or not
HttpOutcomes ==
  {[throws |-> TRUE, code |-> 0, data |-> FALSE]}
    \cup [throws : {FALSE}, code : {0, 1}, data : BOOLEAN]

(***************************************************************************)
(* State                                                                   *)
(***************************************************************************)
VARIABLES
  forwardedHistory,   \* the ledger: a sequence of ForwardedEntry
  warningMessageMap,  \* a Map in insertion order: a sequence of [key, value]
  msg,                \* msg[m]: the on-message handler of source message m
  del,                \* del[d]: a running message-deleted handler, or idle
  call                \* a call of one of the text functions on its own: its
                      \* arguments and, once it has returned, its result

vars == <<forwardedHistory, warningMessageMap, msg, del, call>>

\* Where a handler is: "idle" before the host delivers its event; the name
\* of the await it is suspended in; or the place where it ended.  A handler
\* that has ended keeps none of its locals, and a message-deleted handler
\* that has ended is idle again: the host delivers any number of deletion
\* notifications.  failureNotice records that the catch block has called
\* session.send with the failure notice; raced records that, since the
\* handler's duplicate check, another on-message handler has pushed an entry.
\* The on-message handler ends at the guard that returned (GuardReturns), "duplicate"
\* (the return of the duplicate branch), "noInfo" (biliInfo was null),
\* "failed" (the catch block of the forward), "forwarded" (the end of the
\* try block) or "threw" (an exception escaped the handler).
MsgAwaits == {"warning", "roomInfo", "stats", "helper", "forward", "danmaku"}

\* the guards of the on-message handler, named where the handler returns
GuardReturns ==
  {"unmonitored", "blank", "hardRejected", "noTrigger", "roomIds", "softRejected",
   "noEvent", "weakContext"}

DelAwaits == {"delHelper", "delForward", "delWarning"}

\* the awaits between the duplicate check and forwardedHistory.push
BeforePush == {"roomInfo", "stats", "helper", "forward"}

IdleMsg ==
  [pc |-> "idle", channelId |-> "", roomId |-> <<>>, dateTime |-> <<>>,
   sendHelperMessages |-> FALSE, helperMessageId |-> Undefined,
   forwardedMessageId |-> Undefined, failureNotice |-> FALSE, raced |-> FALSE]

IdleDel ==
  [pc |-> "idle", channelId |-> "", messageId |-> 0, entryIndex |-> -1,
   helperMessageId |-> Undefined, forwardedMessageId |-> Undefined,
   warningMessageId |-> Undefined, calls |-> <<>>]

\* no text function is called on its own
NoCall ==
  [fn |-> "", text |-> <<>>, now |-> [hours |-> 0, minutes |-> 0], result |-> <<>>]

Init ==
  /\ forwardedHistory = <<>>
  /\ warningMessageMap = <<>>
  /\ msg = [m \in 1..MaxMsg |-> IdleMsg]
  /\ del = [d \in 1..MaxDel |-> IdleDel]
  /\ call = NoCall

\* the handler of m ends at the place pc
EndMsg(pc) == [IdleMsg EXCEPT !.pc = pc]

\* the number of handlers suspended at an await
InFlight ==
  Cardinality({m \in 1..MaxMsg : msg[m].pc \in MsgAwaits})
    + Cardinality({d \in 1..MaxDel : del[d].pc \in DelAwaits})

(***************************************************************************)
(* The admission gates of the on-message handler                           *)
(***************************************************************************)
\* GroupConfig with a slip: a channel that is not configured is served with
\* the configuration of the first group
GroupConfigFirstByDefault(channelId) ==
  LET hits == {i \in 1..Len(monitorGroups) : monitorGroups[i].groupId = channelId}
  IN  IF hits = {} THEN <<monitorGroups[1]>> ELSE <<monitorGroups[First(hits)]>>

\* config.monitorGroups.find(g => g.groupId === channelId): <<>> or <<g>>
GroupConfig(channelId) ==
  LET hits == {i \in 1..Len(monitorGroups) : monitorGroups[i].groupId = channelId}
  IN  IF hits = {} THEN <<>> ELSE <<monitorGroups[First(hits)]>>

\* /神金|发|w/i .test(t)
HasStrongContext(t) ==
  \E k \in {<<"shen", "jin">>, <<"fa">>, <<"w">>, <<"W">>} : Includes(t, k)

\* the handler returned at the guard named returned
Return(returned) == [returned |-> returned, roomId |-> <<>>, dateTime |-> <<>>]

\* HardRejected with a slip: an override keyword lifts the hard rejection too
HardRejectedUnlessOverride(strippedContent) ==
  /\ \E k \in HARD_REJECTION_KEYWORDS : Includes(strippedContent, k)
  /\ ~\E k \in OVERRIDE_KEYWORDS : Includes(strippedContent, k)

\* HARD_REJECTION_KEYWORDS.some(keyword => strippedContent.includes(keyword))
HardRejected(strippedContent) ==
  \E k \in HARD_REJECTION_KEYWORDS : Includes(strippedContent, k)

\* NotOneRoomId with a slip: only an empty list is refused, so the first of
\* several room ids is taken
NotOneRoomIdOnlyEmpty(roomIds) == roomIds = {}

\* roomIds.length !== 1
NotOneRoomId(roomIds) == Cardinality(roomIds) # 1

\* SoftRejected with a slip: the override keywords are not consulted
SoftRejectedNoOverride(preprocessedMessage) ==
  \E k \in REJECTION_KEYWORDS : Includes(preprocessedMessage, k)

\* hasRejectionKeyword && !OVERRIDE_KEYWORDS.some(keyword => preprocessedMessage.includes(keyword))
SoftRejected(preprocessedMessage) ==
  /\ \E k \in REJECTION_KEYWORDS : Includes(preprocessedMessage, k)
  /\ ~\E k \in OVERRIDE_KEYWORDS : Includes(preprocessedMessage, k)

\* WeakContext with a slip: hasTime compares dateTime with null, which the
\* parser never returns, instead of with 时间未知
WeakContextNullTime(preprocessedMessage, dateTime) ==
  ~HasStrongContext(preprocessedMessage) /\ dateTime = Null

\* !hasStrongContext && !hasTime
WeakContext(preprocessedMessage, dateTime) ==
  ~HasStrongContext(preprocessedMessage) /\ dateTime = TimeUnknown

\* the guards up to the duplicate check, in the order of the code: the guard
\* at which the handler returns, or "" with the roomId and dateTime it goes on with
Guards(channelId, content, strippedContent, now) ==
  LET Parsed(roomId, preprocessedMessage, parsedEvent) ==
        IF parsedEvent = <<>> THEN Return("noEvent")
        ELSE IF WeakContext(preprocessedMessage, parsedEvent[1].dateTime)
          THEN Return("weakContext")
        ELSE [returned |-> "", roomId |-> roomId, dateTime |-> parsedEvent[1].dateTime]
      Extracted(roomIds, preprocessedMessage) ==
        IF GroupConfig(channelId) = <<>> THEN Return("unmonitored")
        ELSE IF IsBlank(strippedContent) THEN Return("blank")
        ELSE IF HardRejected(strippedContent) THEN Return("hardRejected")
        ELSE IF ~TRIGGER_REGEX(strippedContent) THEN Return("noTrigger")
        ELSE IF NotOneRoomId(roomIds) THEN Return("roomIds")
        ELSE IF SoftRejected(preprocessedMessage) THEN Return("softRejected")
        ELSE Parsed(CHOOSE r \in roomIds : TRUE, preprocessedMessage,
                    parseEventFromText(preprocessedMessage, now))
  IN  Extracted(extractAllRoomIds(content), preprocessChineseNumerals(strippedContent))

\* <<>> when the handler returns at a guard, else <<[roomId, dateTime]>>
Admit(channelId, content, strippedContent, now) ==
  LET Pass(guards) ==
        IF guards.returned # "" THEN <<>>
        ELSE <<[roomId |-> guards.roomId, dateTime |-> guards.dateTime]>>
  IN  Pass(Guards(channelId, content, strippedContent, now))

\* Guards on the inputs of the model, computed once
Guarded ==
  [ch \in Channels, c \in 1..Len(Contents), now \in Clocks |->
     Guards(ch, Contents[c], Contents[c], now)]

\* Admit on the inputs of the model
Admitted ==
  [ch \in Channels, c \in 1..Len(Contents), now \in Clocks |->
     IF Guarded[ch, c, now].returned # "" THEN <<>>
     ELSE <<[roomId |-> Guarded[ch, c, now].roomId,
             dateTime |-> Guarded[ch, c, now].dateTime]>>]

(***************************************************************************)
(* The on-message handler                                                  *)
(***************************************************************************)
\* IsDuplicate with a slip: both fields of the entry compared with dateTime
IsDuplicateWrongField(history, roomId, dateTime) ==
  \E i \in 1..Len(history) : history[i].roomId = dateTime /\ history[i].dateTime = dateTime

\* IsDuplicate with a different design: a key is held from the check on, so a
\* message is a duplicate of a handler that has not yet pushed its entry
IsDuplicateOrPending(history, roomId, dateTime) ==
  \/ \E i \in 1..Len(history) : history[i].roomId = roomId /\ history[i].dateTime = dateTime
  \/ \E k \in 1..MaxMsg :
       msg[k].pc \in BeforePush /\ msg[k].roomId = roomId /\ msg[k].dateTime = dateTime

\* forwardedHistory.some(entry => entry.roomId === roomId && entry.dateTime === dateTime)
IsDuplicate(history, roomId, dateTime) ==
  \E i \in 1..Len(history) : history[i].roomId = roomId /\ history[i].dateTime = dateTime

\* StartMessage with a slip: the return after the duplicate check sits inside
\* the if (sendHelperMessages) block, so a group without helper messages goes on
StartMessageReturnInsideIf(channelId, c, now) ==
  LET Check(task) ==
        IF IsDuplicate(forwardedHistory, task.roomId, task.dateTime) /\ task.sendHelperMessages
          THEN [task EXCEPT !.pc = "warning"]
          ELSE [task EXCEPT !.pc = "roomInfo"]
      Handle(guards) ==
        IF guards.returned # "" THEN EndMsg(guards.returned)
        ELSE Check([IdleMsg EXCEPT !.channelId = channelId,
                                   !.roomId = guards.roomId,
                                   !.dateTime = guards.dateTime,
                                   !.sendHelperMessages =
                                      GroupConfig(channelId)[1].sendHelperMessages])
  IN  Handle(Guarded[channelId, c, now])

\* the handler from its start to its first await or return
StartMessage(channelId, c, now) ==
  LET Check(task) ==
        IF IsDuplicate(forwardedHistory, task.roomId, task.dateTime)
          THEN IF task.sendHelperMessages THEN [task EXCEPT !.pc = "warning"]
                                          ELSE EndMsg("duplicate")
          ELSE [task EXCEPT !.pc = "roomInfo"]
      Handle(guards) ==
        IF guards.returned # "" THEN EndMsg(guards.returned)
        ELSE Check([IdleMsg EXCEPT !.channelId = channelId,
                                   !.roomId = guards.roomId,
                                   !.dateTime = guards.dateTime,
                                   !.sendHelperMessages =
                                      GroupConfig(channelId)[1].sendHelperMessages])
  IN  Handle(Guarded[channelId, c, now])

\* the host delivers message m: the guards and the duplicate check run, up
\* to the first await (the warning send, or the first lookup)
OnMessage(m, channelId, c, now) ==
  /\ msg[m].pc = "idle"
  /\ \A k \in 1..(m - 1) : msg[k].pc # "idle"
  /\ InFlight < MaxInFlight
  /\ msg' = [msg EXCEPT ![m] = StartMessage(channelId, c, now)]
  /\ UNCHANGED <<forwardedHistory, warningMessageMap, del, call>>

\* Map.prototype.set: a present key keeps its place
MapSet(map, key, value) ==
  IF \E i \in 1..Len(map) : map[i].key = key
    THEN [i \in 1..Len(map) |-> IF map[i].key = key THEN [key |-> key, value |-> value]
                                                    ELSE map[i]]
    ELSE Append(map, [key |-> key, value |-> value])

\* WarningSent with a slip: the return after the warning is missing, so the
\* handler of the duplicate goes on to the lookups
WarningSentNoReturn(m, outcome) ==
  /\ msg[m].pc = "warning"
  /\ msg' = [msg EXCEPT ![m].pc = "roomInfo"]
  /\ warningMessageMap' =
       IF outcome = "ok" THEN MapSet(warningMessageMap, m, WarningId(m))
                         ELSE warningMessageMap
  /\ UNCHANGED <<forwardedHistory, del, call>>

\* await session.send(warning) settles
WarningSent(m, outcome) ==
  /\ msg[m].pc = "warning"
  /\ msg' = [msg EXCEPT ![m] = EndMsg("duplicate")]
  /\ warningMessageMap' =
       IF outcome = "ok" THEN MapSet(warningMessageMap, m, WarningId(m))
                         ELSE warningMessageMap
  /\ UNCHANGED <<forwardedHistory, del, call>>

\* const uid = roomInfo?.data?.uid; if (!uid) throw ...
\* const videoCount = statsInfo?.data?.video; if (videoCount === undefined) throw ...
\* LookupOk with a slip: the value read from the response is not tested
LookupOkUntested(response) == ~response.throws

\* whether the value read from the response lets fetchBilibiliInfo go on
LookupOk(response) == ~response.throws /\ response.data

\* fetchBilibiliInfo: await ctx.http.get(room info) settles
RoomInfoFetched(m, response) ==
  /\ msg[m].pc = "roomInfo"
  /\ msg' = [msg EXCEPT ![m] = IF LookupOk(response) THEN [@ EXCEPT !.pc = "stats"]
                                 ELSE EndMsg("noInfo")]
  /\ UNCHANGED <<forwardedHistory, warningMessageMap, del, call>>

\* StatsFetched with a slip: the helper note is sent whatever the group's
\* sendHelperMessages says
StatsFetchedAlwaysHelper(m, response) ==
  /\ msg[m].pc = "stats"
  /\ msg' = [msg EXCEPT ![m] = IF ~LookupOk(response) THEN EndMsg("noInfo")
                                 ELSE [@ EXCEPT !.pc = "helper"]]
  /\ UNCHANGED <<forwardedHistory, warningMessageMap, del, call>>

\* fetchBilibiliInfo: await ctx.http.get(navnum) settles; then the helper
\* note is sent, or else the forward is dispatched
StatsFetched(m, response) ==
  /\ msg[m].pc = "stats"
  /\ msg' = [msg EXCEPT ![m] = IF ~LookupOk(response) THEN EndMsg("noInfo")
                                 ELSE IF @.sendHelperMessages THEN [@ EXCEPT !.pc = "helper"]
                                 ELSE [@ EXCEPT !.pc = "forward"]]
  /\ UNCHANGED <<forwardedHistory, warningMessageMap, del, call>>

\* await session.send(helper note) settles; it is not inside a try block
HelperSent(m, outcome) ==
  /\ msg[m].pc = "helper"
  /\ msg' = [msg EXCEPT ![m] =
               IF outcome = "throw" THEN EndMsg("threw")
               ELSE [@ EXCEPT !.pc = "forward",
                              !.helperMessageId =
                                 IF outcome = "ok" THEN HelperId(m) ELSE Undefined]]
  /\ UNCHANGED <<forwardedHistory, warningMessageMap, del, call>>

\* PushEntry with a slip: the length is compared before the push, so the
\* ledger grows to historySize + 1
PushEntryLateShift(history, entry) ==
  IF Len(history) > historySize THEN Tail(Append(history, entry)) ELSE Append(history, entry)

\* forwardedHistory.push(entry); if (length > historySize) forwardedHistory.shift()
PushEntry(history, entry) ==
  LET pushed == Append(history, entry)
  IN  IF Len(pushed) > historySize THEN Tail(pushed) ELSE pushed

\* NewEntry with a slip: the id of the helper note is left out
NewEntryWithoutHelper(m, forwardedMessageId) ==
  [originalMessageId |-> m,
   forwardedMessageId |-> forwardedMessageId,
   helperMessageId |-> Undefined,
   roomId |-> msg[m].roomId,
   dateTime |-> msg[m].dateTime]

\* the entry the handler of m records
NewEntry(m, forwardedMessageId) ==
  [originalMessageId |-> m,
   forwardedMessageId |-> forwardedMessageId,
   helperMessageId |-> msg[m].helperMessageId,
   roomId |-> msg[m].roomId,
   dateTime |-> msg[m].dateTime]

\* ForwardSent with a slip: the entry is pushed before the dispatch is
\* awaited, so a failed dispatch leaves it in the ledger
ForwardSentPushFirst(m, outcome) ==
  /\ msg[m].pc = "forward"
  /\ LET id == IF outcome = "ok" THEN ForwardId(m) ELSE Undefined
     IN  /\ forwardedHistory' = PushEntry(forwardedHistory, NewEntry(m, id))
         /\ msg' = [msg EXCEPT ![m] =
                      IF outcome = "throw"
                        THEN [EndMsg("failed") EXCEPT !.failureNotice = TRUE]
                        ELSE [@ EXCEPT !.forwardedMessageId = id, !.pc = "danmaku"]]
  /\ UNCHANGED <<warningMessageMap, del, call>>

\* await session.bot.sendMessage / sendPrivateMessage settles: the entry is
\* pushed and the danmaku posted, or the catch block sends the failure
\* notice (session.send, not awaited) and the handler ends
ForwardSent(m, outcome) ==
  /\ msg[m].pc = "forward"
  /\ IF outcome = "throw"
       THEN /\ msg' = [msg EXCEPT ![m] = [EndMsg("failed") EXCEPT !.failureNotice = TRUE]]
            /\ UNCHANGED forwardedHistory
       ELSE LET id == IF outcome = "ok" THEN ForwardId(m) ELSE Undefined
            IN  /\ forwardedHistory' = PushEntry(forwardedHistory, NewEntry(m, id))
                /\ msg' = [k \in 1..MaxMsg |->
                             IF k = m
                               THEN [msg[m] EXCEPT !.forwardedMessageId = id,
                                                   !.pc = "danmaku"]
                             ELSE IF msg[k].pc \in BeforePush
                               THEN [msg[k] EXCEPT !.raced = TRUE]
                             ELSE msg[k]]
  /\ UNCHANGED <<warningMessageMap, del, call>>

\* DanmakuSent with a slip: sendBilibiliDanmaku does not catch the network
\* error, so the catch block of the handler sends the failure notice
DanmakuSentUncaught(m, outcome) ==
  /\ msg[m].pc = "danmaku"
  /\ msg' = [msg EXCEPT ![m] =
               IF outcome = "throw" THEN [EndMsg("failed") EXCEPT !.failureNotice = TRUE]
               ELSE EndMsg("forwarded")]
  /\ UNCHANGED <<forwardedHistory, warningMessageMap, del, call>>

\* await sendBilibiliDanmaku settles: it catches its own errors
DanmakuSent(m, outcome) ==
  /\ msg[m].pc = "danmaku"
  /\ msg' = [msg EXCEPT ![m] = EndMsg("forwarded")]
  /\ UNCHANGED <<forwardedHistory, warningMessageMap, del, call>>

(***************************************************************************)
(* The message-deleted handler                                             *)
(***************************************************************************)
\* forwardedHistory.findIndex(entry => entry.originalMessageId === id)
FindIndex(history, id) ==
  LET hits == {i \in 1..Len(history) : history[i].originalMessageId = id}
  IN  IF hits = {} THEN -1 ELSE First(hits)

\* Array.prototype.splice(index, 1), index counted from 1
Splice(history, index) ==
  IF index >= 1 /\ index <= Len(history)
    THEN SubSeq(history, 1, index - 1) \o SubSeq(history, index + 1, Len(history))
    ELSE history

MapHas(map, key) == \E i \in 1..Len(map) : map[i].key = key

MapGet(map, key) == map[CHOOSE i \in 1..Len(map) : map[i].key = key].value

\* Map.prototype.delete
MapDelete(map, key) ==
  IF MapHas(map, key) THEN Splice(map, CHOOSE i \in 1..Len(map) : map[i].key = key)
  ELSE map

\* Case 2 of the handler, up to its await: the task after it
WarningCase(task, map) ==
  IF MapHas(map, task.messageId)
    THEN [task EXCEPT !.pc = "delWarning",
                      !.warningMessageId = MapGet(map, task.messageId),
                      !.calls = Append(@, <<task.channelId, MapGet(map, task.messageId)>>)]
    ELSE IdleDel

\* StartDeleted with a slip: the channel guard is missing
StartDeletedNoGuard(channelId, messageId) ==
  LET base == [IdleDel EXCEPT !.channelId = channelId, !.messageId = messageId]
      entryIndex == FindIndex(forwardedHistory, messageId)
      entry == forwardedHistory[entryIndex]
      found == [base EXCEPT !.entryIndex = entryIndex,
                            !.helperMessageId = entry.helperMessageId,
                            !.forwardedMessageId = entry.forwardedMessageId]
  IN  IF entryIndex = -1 THEN WarningCase(base, warningMessageMap)
      ELSE IF entry.helperMessageId # Undefined
        THEN [found EXCEPT !.pc = "delHelper",
                           !.calls = <<<<channelId, entry.helperMessageId>>>>]
      ELSE [found EXCEPT !.pc = "delForward",
                         !.calls = <<<<targetQQ, entry.forwardedMessageId>>>>]

\* the handler of a deletion notification from its start to its first await
\* or return: the channel guard, then Case 1, else Case 2
StartDeleted(channelId, messageId) ==
  LET base == [IdleDel EXCEPT !.channelId = channelId, !.messageId = messageId]
      entryIndex == FindIndex(forwardedHistory, messageId)
      entry == forwardedHistory[entryIndex]
      found == [base EXCEPT !.entryIndex = entryIndex,
                            !.helperMessageId = entry.helperMessageId,
                            !.forwardedMessageId = entry.forwardedMessageId]
  IN  IF GroupConfig(channelId) = <<>> THEN IdleDel
      ELSE IF entryIndex = -1 THEN WarningCase(base, warningMessageMap)
      ELSE IF entry.helperMessageId # Undefined
        THEN [found EXCEPT !.pc = "delHelper",
                           !.calls = <<<<channelId, entry.helperMessageId>>>>]
      ELSE [found EXCEPT !.pc = "delForward",
                         !.calls = <<<<targetQQ, entry.forwardedMessageId>>>>]

\* the host delivers a deletion notification for a message it has delivered
OnDeleted(d, channelId, messageId) ==
  /\ del[d].pc = "idle"
  /\ \A k \in 1..(d - 1) : del[k].pc # "idle"
  /\ msg[messageId].pc # "idle"
  /\ InFlight < MaxInFlight
  /\ del' = [del EXCEPT ![d] = StartDeleted(channelId, messageId)]
  /\ UNCHANGED <<forwardedHistory, warningMessageMap, msg, call>>

\* HelperDeleted with a slip: the delete of the helper note is not inside a
\* try block, so a rejection ends the handler
HelperDeletedUncaught(d, ok) ==
  /\ del[d].pc = "delHelper"
  /\ del' = [del EXCEPT ![d] =
               IF ok THEN [@ EXCEPT !.pc = "delForward",
                                    !.calls = Append(@, <<targetQQ, del[d].forwardedMessageId>>)]
               ELSE IdleDel]
  /\ UNCHANGED <<forwardedHistory, warningMessageMap, msg, call>>

\* await deleteMessage(channelId, helperMessageId) settles, resolved or
\* rejected; the delete of the forwarded message is called next
HelperDeleted(d, ok) ==
  /\ del[d].pc = "delHelper"
  /\ del' = [del EXCEPT ![d].pc = "delForward",
                        ![d].calls = Append(@, <<targetQQ, del[d].forwardedMessageId>>)]
  /\ UNCHANGED <<forwardedHistory, warningMessageMap, msg, call>>

\* await deleteMessage(targetQQ, forwardedMessageId) settles; the finally
\* block splices at the index found before the awaits, then Case 2 runs
ForwardDeleted(d, ok) ==
  /\ del[d].pc = "delForward"
  /\ forwardedHistory' = Splice(forwardedHistory, del[d].entryIndex)
  /\ del' = [del EXCEPT ![d] = WarningCase(del[d], warningMessageMap)]
  /\ UNCHANGED <<warningMessageMap, msg, call>>

\* WarningDeleted with a slip: the mapping is deleted after the await inside
\* the try block, not in a finally block, so a rejected delete keeps it
WarningDeletedInsideTry(d, ok) ==
  /\ del[d].pc = "delWarning"
  /\ warningMessageMap' =
       IF ok THEN MapDelete(warningMessageMap, del[d].messageId) ELSE warningMessageMap
  /\ del' = [del EXCEPT ![d] = IdleDel]
  /\ UNCHANGED <<forwardedHistory, msg, call>>

\* await deleteMessage(channelId, warningMessageId) settles; the finally
\* block deletes the mapping
WarningDeleted(d, ok) ==
  /\ del[d].pc = "delWarning"
  /\ warningMessageMap' = MapDelete(warningMessageMap, del[d].messageId)
  /\ del' = [del EXCEPT ![d] = IdleDel]
  /\ UNCHANGED <<forwardedHistory, msg, call>>

(***************************************************************************)
(* The specification                                                       *)
(***************************************************************************)
\* the response of the danmaku POST: code 0, another code, another code with
\* a message that reports a rate limit, or a network error
DanmakuOutcomes == {"ok", "refused", "rateLimited", "throw"}

Next ==
  \/ \E m \in 1..MaxMsg, ch \in Channels, c \in 1..Len(Contents), now \in Clocks :
       OnMessage(m, ch, c, now)
  \/ \E m \in 1..MaxMsg, outcome \in SendOutcomes : WarningSent(m, outcome)
  \/ \E m \in 1..MaxMsg, response \in HttpOutcomes : RoomInfoFetched(m, response)
  \/ \E m \in 1..MaxMsg, response \in HttpOutcomes : StatsFetched(m, response)
  \/ \E m \in 1..MaxMsg, outcome \in SendOutcomes : HelperSent(m, outcome)
  \/ \E m \in 1..MaxMsg, outcome \in SendOutcomes : ForwardSent(m, outcome)
  \/ \E m \in 1..MaxMsg, outcome \in DanmakuOutcomes : DanmakuSent(m, outcome)
  \/ \E d \in 1..MaxDel, ch \in Channels, id \in 1..MaxMsg : OnDeleted(d, ch, id)
  \/ \E d \in 1..MaxDel, ok \in BOOLEAN : HelperDeleted(d, ok)
  \/ \E d \in 1..MaxDel, ok \in BOOLEAN : ForwardDeleted(d, ok)
  \/ \E d \in 1..MaxDel, ok \in BOOLEAN : WarningDeleted(d, ok)

Spec == Init /\ [][Next]_vars

(***************************************************************************)
(* The text functions called on their own                                  *)
(***************************************************************************)
\* the largest number of the run 0..MaxNumber whose word form is an input
MaxNumber == 120

\* the largest number of lines of a text given to parseEventFromText
MaxLines == 3

\* the numerals 零 一 二 ... 九 by value
DigitWord(d) ==
  <<"ling", "yi", "er", "san", "si", "wu", "liu", "qi", "ba", "jiu">>[d + 1]

\* the word form of a section s in 1..9999: 千, 百, 十 and the ones, 零 for a
\* gap before a lower digit; a leading section 10..19 is written 十, 十一, ...
SectionWord(s, leading) ==
  LET q == s \div 1000
      b == (s \div 100) % 10
      t == (s \div 10) % 10
      o == s % 10
  IN  (IF q > 0 THEN <<DigitWord(q), "qian">> ELSE <<>>)
        \o (IF b > 0 THEN <<DigitWord(b), "bai">>
            ELSE IF q > 0 /\ (t > 0 \/ o > 0) THEN <<"ling">> ELSE <<>>)
        \o (IF t > 0
              THEN IF leading /\ q = 0 /\ b = 0 /\ t = 1 THEN <<"shi10">>
                   ELSE <<DigitWord(t), "shi10">>
            ELSE IF b > 0 /\ o > 0 THEN <<"ling">> ELSE <<>>)
        \o (IF o > 0 THEN <<DigitWord(o)>> ELSE <<>>)

\* the standard word form of n in 0..99,999,999
WordForm(n) ==
  IF n = 0 THEN <<"ling">>
  ELSE IF n < 10000 THEN SectionWord(n, TRUE)
  ELSE SectionWord(n \div 10000, TRUE) \o <<"wan">>
         \o (IF n % 10000 = 0 THEN <<>>
             ELSE IF n % 10000 < 1000 THEN <<"ling">> \o SectionWord(n % 10000, FALSE)
             ELSE SectionWord(n % 10000, FALSE))

\* the numbers whose word forms are inputs: 0..MaxNumber, and numbers with
\* zero placeholders, with 万 and with a section of several characters before 万
Numbers ==
  0..MaxNumber
    \cup {1008, 1080, 9999, 10000, 10008, 30000, 100000, 120000, 200000, 12000000,
          99999999}

\* texts for preprocessChineseNumerals: a word form alone, and inside 发...w
NumeralTexts ==
  {WordForm(n) : n \in Numbers} \cup {<<"fa">> \o WordForm(n) \o <<"w">> : n \in Numbers}

\* texts for extractAllRoomIds:
\*   房间号123 / 房间号123 987654321 / 987654321 房间号123456 /
\*   房间号123 房间号456 / 123456789 / 1234567 123456789 发2w /
\*   123456789 1234567 / 1234567 7654321 / 发2w
RoomIdTexts ==
  {<<"fang", "jian", "hao", "1", "2", "3">>,
   <<"fang", "jian", "hao", "1", "2", "3", " ", "9", "8", "7", "6", "5", "4", "3", "2", "1">>,
   <<"9", "8", "7", "6", "5", "4", "3", "2", "1", " ",
     "fang", "jian", "hao", "1", "2", "3", "4", "5", "6">>,
   <<"fang", "jian", "hao", "1", "2", "3", " ", "fang", "jian", "hao", "4", "5", "6">>,
   <<"1", "2", "3", "4", "5", "6", "7", "8", "9">>,
   <<"1", "2", "3", "4", "5", "6", "7", " ",
     "1", "2", "3", "4", "5", "6", "7", "8", "9", " ", "fa", "2", "w">>,
   <<"1", "2", "3", "4", "5", "6", "7", "8", "9", " ", "1", "2", "3", "4", "5", "6", "7">>,
   <<"1", "2", "3", "4", "5", "6", "7", " ", "7", "6", "5", "4", "3", "2", "1">>,
   <<"fa", "2", "w">>}

\* lines for parseEventFromText: blank / 8点 / 发2w / 3000 9点 / 房间号 /
\* 5级灯牌发2w 发2w
ParserLines ==
  {<<" ">>,
   <<"8", "dian">>,
   <<"fa", "2", "w">>,
   <<"3", "0", "0", "0", " ", "9", "dian">>,
   <<"fang", "jian", "hao">>,
   <<"5", "ji", "deng", "pai", "fa", "2", "w", " ", "fa", "2", "w">>}

\* the sequences of one to MaxLines lines
LineSeqs == UNION {[1..k -> ParserLines] : k \in 1..MaxLines}

\* Array.prototype.join('\n')
RECURSIVE Join(_)
Join(lines) ==
  IF Len(lines) = 1 THEN lines[1] ELSE lines[1] \o <<"nl">> \o Join(Tail(lines))

\* texts for parseEventFromText
ParserTexts == {Join(lines) : lines \in LineSeqs}

\* texts for extractDateTime with only minutes: 0分 ... 59分
MinuteTexts == {ToStr(k) \o <<"fen">> : k \in 0..59}

\* every wall clock time
AllClocks == [hours : 0..23, minutes : 0..59]

\* the calls: a text and the wall clock of the call
Calls ==
  {[NoCall EXCEPT !.text = t, !.now = now] :
     t \in NumeralTexts \cup RoomIdTexts \cup ParserTexts, now \in Clocks}
    \cup {[NoCall EXCEPT !.text = t, !.now = now] : t \in MinuteTexts, now \in AllClocks}

TextInit ==
  /\ forwardedHistory = <<>>
  /\ warningMessageMap = <<>>
  /\ msg = [m \in 1..MaxMsg |-> IdleMsg]
  /\ del = [d \in 1..MaxDel |-> IdleDel]
  /\ call \in Calls

\* the call returns: fn is the function called, result what it returned
Returns(fn, result) ==
  /\ call.fn = ""
  /\ call' = [call EXCEPT !.fn = fn, !.result = result]
  /\ UNCHANGED <<forwardedHistory, warningMessageMap, msg, del>>

CallPreprocessChineseNumerals ==
  /\ call.text \in NumeralTexts
  /\ Returns("preprocessChineseNumerals", preprocessChineseNumerals(call.text))

CallExtractAllRoomIds ==
  /\ call.text \in RoomIdTexts
  /\ Returns("extractAllRoomIds", extractAllRoomIds(call.text))

CallParseEventFromText ==
  /\ call.text \in ParserTexts
  /\ Returns("parseEventFromText", parseEventFromText(call.text, call.now))

CallExtractDateTime ==
  /\ call.text \in MinuteTexts
  /\ Returns("extractDateTime", extractDateTime(call.text, call.now))

TextNext ==
  \/ CallPreprocessChineseNumerals
  \/ CallExtractAllRoomIds
  \/ CallParseEventFromText
  \/ CallExtractDateTime

TextSpec == TextInit /\ [][TextNext]_vars

(***************************************************************************)
(* Properties                                                              *)
(***************************************************************************)
Monitored == {monitorGroups[i].groupId : i \in 1..Len(monitorGroups)}

\* an entry of the ledger has this key
KeyLive(history, roomId, dateTime) ==
  \E i \in 1..Len(history) : history[i].roomId = roomId /\ history[i].dateTime = dateTime

\* no two entries of the ledger have the same key
UniqueKeys(history) ==
  \A i, j \in 1..Len(history) :
    (history[i].roomId = history[j].roomId /\ history[i].dateTime = history[j].dateTime)
      => i = j

\* the step in which the handler of m pushes its entry
Pushes(m) == msg[m].pc = "forward" /\ msg'[m].pc = "danmaku"

\* C1, as stated: in every reachable state, overlapping handlers included,
\* the ledger holds at most one entry for each (roomId, dateTime) pair.
C1_AtMostOneEntryPerKey == UniqueKeys(forwardedHistory)

\* C1, amended: a ledger with at most one entry per (roomId, dateTime) pair
\* keeps that property in every step, except a push by a handler during
\* whose interval from duplicate check to push another on-message handler
\* has pushed.  Handlers that do not overlap never produce a second entry.
C1_UniqueUnlessRaced ==
  [][(UniqueKeys(forwardedHistory) /\ \A m \in 1..MaxMsg : Pushes(m) => ~msg[m].raced)
       => UniqueKeys(forwardedHistory')]_vars

\* a handler no other handler has raced has pushed the second entry of the
\* ledger, and a later message with a key of the ledger is being suppressed
C1_Witness ==
  /\ Len(forwardedHistory) = 2
  /\ UniqueKeys(forwardedHistory)
  /\ \E m, k \in 1..MaxMsg :
       /\ msg[m].pc = "forwarded" /\ FindIndex(forwardedHistory, m) = 2
       /\ msg[k].pc = "warning" /\ k > m

\* what the message-deleted handler does for the entry of message m when
\* the notification is handled in this state: the calls it will make
Retracts(channelId, m, helperMessageId, forwardedMessageId) ==
  LET task == StartDeleted(channelId, m)
  IN  /\ helperMessageId # Undefined =>
           /\ task.pc = "delHelper"
           /\ task.calls = <<<<channelId, helperMessageId>>>>
      /\ forwardedMessageId # Undefined =>
           /\ task.pc \in {"delHelper", "delForward"}
           /\ task.forwardedMessageId = forwardedMessageId
           /\ task.pc = "delForward" => task.calls = <<<<targetQQ, forwardedMessageId>>>>

\* C2, as stated: for every source message for which a helper note or a
\* forwarded copy has been sent, a deletion notification for it, whenever it
\* is handled, leads to a delete attempt on each of the messages sent.
C2_EverySentMessageRetracted ==
  \A m \in 1..MaxMsg :
    msg[m].pc \in {"forward", "danmaku"} =>
      Retracts(msg[m].channelId, m, msg[m].helperMessageId, msg[m].forwardedMessageId)

\* C2, amended: when the ledger holds the entry of the source message at the
\* time the deletion notification is handled, the handler attempts to delete
\* the entry's helper note (if it has one) and then, whether that delete
\* resolved or rejected, the entry's forwarded copy.
C2_LiveEntryRetracted ==
  /\ [](\A i \in 1..Len(forwardedHistory), ch \in Monitored :
          LET entry == forwardedHistory[i]
              task == StartDeleted(ch, entry.originalMessageId)
          IN  /\ task.pc = IF entry.helperMessageId # Undefined THEN "delHelper"
                                                              ELSE "delForward"
              /\ task.calls = IF entry.helperMessageId # Undefined
                                THEN <<<<ch, entry.helperMessageId>>>>
                                ELSE <<<<targetQQ, entry.forwardedMessageId>>>>
              /\ task.forwardedMessageId = entry.forwardedMessageId)
  /\ [][\A d \in 1..MaxDel :
          (del[d].pc = "delHelper" /\ del'[d] # del[d]) =>
             /\ del'[d].pc = "delForward"
             /\ del'[d].calls = Append(del[d].calls, <<targetQQ, del[d].forwardedMessageId>>)]_vars

\* a handler has called delete for the helper note and then for the forwarded
\* copy of an entry pushed before a later message was forwarded
C2_Witness ==
  \E d \in 1..MaxDel :
    /\ del[d].pc = "delForward"
    /\ del[d].calls = <<<<del[d].channelId, HelperId(del[d].messageId)>>,
                        <<targetQQ, ForwardId(del[d].messageId)>>>>
    /\ \E k \in 1..MaxMsg : k > del[d].messageId /\ msg[k].pc = "forwarded"

\* C3: a message whose (roomId, dateTime) key is the key of an entry of the
\* ledger when it is handled is a duplicate: the handler performs no lookup
\* and dispatches no forward (it ends, or sends the warning and then ends),
\* and it leaves the ledger unchanged.
C3_DuplicateSuppressed ==
  /\ [](\A ch \in Channels, c \in 1..Len(Contents), now \in Clocks :
          LET admitted == Admitted[ch, c, now]
          IN  (admitted # <<>>
               /\ KeyLive(forwardedHistory, admitted[1].roomId, admitted[1].dateTime))
                => StartMessage(ch, c, now).pc \in {"warning", "duplicate"})
  /\ [][\A m \in 1..MaxMsg :
          (msg[m].pc = "warning" /\ msg'[m].pc # "warning") =>
             /\ msg'[m].pc = "duplicate"
             /\ forwardedHistory' = forwardedHistory]_vars

\* a group without helper messages: the second message with the key of a live
\* entry has ended as a duplicate, the ledger holding that one entry
C3_Witness ==
  /\ Len(forwardedHistory) = 1
  /\ \E m, k \in 1..MaxMsg :
       /\ m < k
       /\ FindIndex(forwardedHistory, m) = 1
       /\ forwardedHistory[1].helperMessageId = Undefined
       /\ msg[k].pc = "duplicate"

\* C4: the ledger never holds more than historySize entries; a push onto a
\* full ledger removes exactly its first entry, and every push keeps the
\* other entries in their order, the new entry last.
C4_LedgerBoundedFifo ==
  /\ [](Len(forwardedHistory) <= historySize)
  /\ [][\A m \in 1..MaxMsg :
          Pushes(m) =>
            LET n == Len(forwardedHistory)
                kept == IF n < historySize THEN forwardedHistory
                                           ELSE Tail(forwardedHistory)
            IN  /\ Len(forwardedHistory') = Len(kept) + 1
                /\ SubSeq(forwardedHistory', 1, Len(kept)) = kept
                /\ forwardedHistory'[Len(kept) + 1].originalMessageId = m]_vars

\* the ledger is full, the handler of the newest entry is at its last await,
\* and an older forwarded message has lost its entry
C4_Witness ==
  /\ Len(forwardedHistory) = historySize
  /\ \E m, k \in 1..MaxMsg :
       /\ msg[m].pc = "danmaku" /\ FindIndex(forwardedHistory, m) = historySize
       /\ k < m /\ msg[k].pc = "forwarded" /\ FindIndex(forwardedHistory, k) = -1
       /\ \A j \in 1..MaxMsg : (k < j /\ j < m) => FindIndex(forwardedHistory, j) # -1

\* C5, as stated: a deletion whose id matches an entry attempts the helper
\* delete (if the entry has a helper id) and the forward delete; the forward
\* delete is called whether the helper delete resolved or rejected; and when
\* the forward delete has settled, resolved or rejected, the ledger holds no
\* entry of the deleted message.
C5_EntryRemovedWhateverFails ==
  [][\A d \in 1..MaxDel, id \in 1..MaxMsg :
       /\ (del[d].pc = "idle" /\ del'[d].pc \in {"delHelper", "delForward"}
           /\ del'[d].messageId = id) =>
             LET entry == forwardedHistory[FindIndex(forwardedHistory, id)]
             IN  del'[d].pc = "delHelper" <=> entry.helperMessageId # Undefined
       /\ (del[d].pc = "delHelper" /\ del'[d] # del[d]) => del'[d].pc = "delForward"
       /\ (del[d].pc = "delForward" /\ del'[d] # del[d] /\ del[d].messageId = id) =>
             FindIndex(forwardedHistory', id) = -1]_vars

\* a deletion notification for id, handled in this state, makes no delete
\* call and changes nothing: the handler returns at once
NoOpDeletion(id) == \A ch \in Channels : StartDeleted(ch, id) = IdleDel

\* C6, as stated, for a first handler that made a delete call: once the
\* message-deleted handler of an id has finished, a second deletion
\* notification for that id makes no delete call and leaves the ledger and
\* the warning map unchanged.
C6_SecondDeletionIsNoOp ==
  [][\A d \in 1..MaxDel, id \in 1..MaxMsg :
       (del[d].pc \in DelAwaits /\ del[d].messageId = id /\ del'[d].pc = "idle")
         => NoOpDeletion(id)']_vars

\* the lookup has failed: the HTTP call rejected, or the response holds no
\* data.uid / data.video
LookupFailure(response) == response.throws \/ ~response.data

\* C7: when the enrichment lookup fails, the handler sends no helper note,
\* dispatches no forward and returns normally; the ledger and the warning map
\* stay as they are, and the message never has an entry.
C7_LookupFailureEndsHandler ==
  /\ [](\A m \in 1..MaxMsg :
          msg[m].pc = "noInfo" =>
            /\ FindIndex(forwardedHistory, m) = -1
            /\ ~MapHas(warningMessageMap, m))
  /\ [][\A m \in 1..MaxMsg, response \in HttpOutcomes :
          (LookupFailure(response)
           /\ (RoomInfoFetched(m, response) \/ StatsFetched(m, response))) =>
             /\ msg'[m].pc = "noInfo"
             /\ forwardedHistory' = forwardedHistory
             /\ warningMessageMap' = warningMessageMap]_vars

\* a lookup has failed while the ledger holds an entry
C7_Witness ==
  /\ Len(forwardedHistory) >= 1
  /\ \E m \in 1..MaxMsg : msg[m].pc = "noInfo"

\* C8, as stated: a lookup response whose code is not 0 is an enrichment
\* failure, data.uid / data.video present or not: the handler ends without
\* helper note, forward or ledger entry.
C8_NonZeroCodeIsFailure ==
  [][\A m \in 1..MaxMsg, response \in HttpOutcomes :
       (~response.throws /\ response.code # 0
        /\ (RoomInfoFetched(m, response) \/ StatsFetched(m, response))) =>
          msg'[m].pc = "noInfo"]_vars

\* C9: when the forward dispatch fails, the failure notice is sent to the
\* source channel and no entry is created: the ledger is unchanged by the
\* step, and the message never has an entry.
C9_FailedDispatchLeavesNoEntry ==
  /\ [](\A m \in 1..MaxMsg :
          msg[m].pc = "failed" => msg[m].failureNotice /\ FindIndex(forwardedHistory, m) = -1)
  /\ [][\A m \in 1..MaxMsg :
          (msg[m].pc = "forward" /\ msg'[m].pc \notin {"forward", "danmaku"}) =>
             /\ msg'[m].pc = "failed"
             /\ msg'[m].failureNotice
             /\ forwardedHistory' = forwardedHistory]_vars

\* the dispatch of a message whose helper note was sent has failed, the
\* ledger holding the entry of an earlier message
C9_Witness ==
  \E m, k \in 1..MaxMsg :
    /\ msg[m].pc = "failed" /\ msg[m].failureNotice
    /\ k < m /\ FindIndex(forwardedHistory, k) = 1

\* the entries of history are entries of before
OnlyOldEntries(before, history) ==
  \A i \in 1..Len(history) : \E j \in 1..Len(before) : before[j] = history[i]

\* C10: the ledger gains an entry exactly in the step in which a dispatch
\* resolves, one entry, and in no other step; the entry holds the source
\* message id, the id the dispatch returned, the helper id, and the roomId
\* and dateTime the handler of that message computed for its duplicate check.
C10_OneEntryPerDispatch ==
  /\ [](\A i, j \in 1..Len(forwardedHistory) :
          /\ msg[forwardedHistory[i].originalMessageId].pc \in {"danmaku", "forwarded"}
          /\ forwardedHistory[i].originalMessageId = forwardedHistory[j].originalMessageId
               => i = j)
  /\ [][/\ \A m \in 1..MaxMsg :
             Pushes(m) =>
               /\ forwardedHistory'[Len(forwardedHistory')] =
                    [originalMessageId |-> m,
                     forwardedMessageId |-> msg'[m].forwardedMessageId,
                     helperMessageId |-> msg[m].helperMessageId,
                     roomId |-> msg[m].roomId,
                     dateTime |-> msg[m].dateTime]
               /\ msg'[m].forwardedMessageId \in {ForwardId(m), Undefined}
               /\ OnlyOldEntries(forwardedHistory,
                                 SubSeq(forwardedHistory', 1, Len(forwardedHistory') - 1))
        /\ (\A m \in 1..MaxMsg : ~Pushes(m)) =>
             OnlyOldEntries(forwardedHistory, forwardedHistory')]_vars

\* the ledger holds an entry with the ids of the helper note and of the
\* forwarded copy of its message
C10_Witness ==
  \E i \in 1..Len(forwardedHistory) :
    LET entry == forwardedHistory[i]
    IN  /\ entry.helperMessageId = HelperId(entry.originalMessageId)
        /\ entry.forwardedMessageId = ForwardId(entry.originalMessageId)
        /\ entry.roomId = msg[entry.originalMessageId].roomId
        /\ msg[entry.originalMessageId].pc = "danmaku"

\* C11: whatever the external calls of a handler do (the lookups, the sends
\* of the warning, the helper note, the forward and the failure notice, the
\* danmaku post, the delete calls), no exception or rejected promise escapes
\* the handler to the host: no on-message handler ends by throwing.
C11_NoFailureEscapes ==
  \A m \in 1..MaxMsg : msg[m].pc # "threw"

\* the texts that pass every guard when they come from a monitored group
PassingTexts ==
  {c \in 1..Len(Contents) :
     \A ch \in Monitored, now \in Clocks : Admitted[ch, c, now] # <<>>}

\* the group of channelId sends helper notes and warnings
SendsHelper(channelId) == GroupConfig(channelId)[1].sendHelperMessages

\* the running handler of m serves a group with sendHelperMessages false
HelperOff(m) == msg[m].pc \in MsgAwaits /\ ~SendsHelper(msg[m].channelId)

\* the running handler of m serves a group with sendHelperMessages true
HelperOn(m) == msg[m].pc \in MsgAwaits /\ SendsHelper(msg[m].channelId)

\* C12: for a group with sendHelperMessages false the handler never sends the
\* helper note or the warning, never adds an entry to the warning map, and the
\* entry it pushes has no helperMessageId; for a group with sendHelperMessages
\* true the handler of a duplicate sends the warning, and after a successful
\* enrichment the helper note is sent before the forward is dispatched.
C12_HelperToggle ==
  /\ [](\A m \in 1..MaxMsg :
          HelperOff(m) =>
            /\ msg[m].pc \notin {"warning", "helper"}
            /\ msg[m].helperMessageId = Undefined)
  /\ [][/\ \A m \in 1..MaxMsg :
            /\ (HelperOff(m) /\ msg'[m].pc # msg[m].pc) =>
                 /\ msg'[m].pc \notin {"warning", "helper"}
                 /\ warningMessageMap' = warningMessageMap
                 /\ Pushes(m) =>
                      forwardedHistory'[Len(forwardedHistory')].helperMessageId = Undefined
            /\ (HelperOn(m) /\ msg[m].pc = "stats" /\ msg'[m].pc # "stats") =>
                 msg'[m].pc \in {"helper", "noInfo"}
            /\ (HelperOn(m) /\ msg[m].pc # "forward" /\ msg'[m].pc = "forward") =>
                 msg[m].pc = "helper"
        /\ \A m \in 1..MaxMsg :
            (msg[m].pc = "idle" /\ msg'[m].pc # "idle") =>
              \A ch \in Monitored, c \in PassingTexts, now \in Clocks :
                OnMessage(m, ch, c, now) =>
                  /\ warningMessageMap' = warningMessageMap
                  /\ IF SendsHelper(ch)
                       THEN KeyLive(forwardedHistory, Admitted[ch, c, now][1].roomId,
                                    Admitted[ch, c, now][1].dateTime)
                              => msg'[m].pc = "warning"
                       ELSE msg'[m].pc \notin {"warning", "helper"}]_vars

\* a message of the group without helper messages has been forwarded with no
\* helper note (its entry has no helperMessageId, the warning map is empty)
\* while a message of the group with helper messages waits for its helper
\* note to be sent
C12_Witness ==
  /\ warningMessageMap = <<>>
  /\ \E i \in 1..Len(forwardedHistory) :
       /\ forwardedHistory[i].helperMessageId = Undefined
       /\ forwardedHistory[i].forwardedMessageId # Undefined
       /\ msg[forwardedHistory[i].originalMessageId].pc = "danmaku"
       /\ msg[forwardedHistory[i].originalMessageId].channelId = "g2"
  /\ \E m \in 1..MaxMsg : msg[m].pc = "helper" /\ msg[m].channelId = "g1"

\* C13: the warning map is bounded: it never holds more than historySize
\* entries, in the current state and after the handler of the next duplicate
\* message has set its entry (warningMessageMap.set evicting the oldest entry
\* of a full map).
C13_WarningMapBounded ==
  /\ Len(warningMessageMap) <= historySize
  /\ \A messageId \in 1..(MaxMsg + 1) :
       Len(MapSet(warningMessageMap, messageId, WarningId(messageId))) <= historySize

\* C14: a deletion notification from a monitored group whose id matches no
\* entry of the ledger but is a key of the warning map makes one delete call,
\* for the warning message in the channel of the notification, and when that
\* call settles, resolved or rejected, the mapping is removed and nothing else
\* changes; a notification whose id matches neither makes no delete call and
\* changes nothing.
C14_WarningRetracted ==
  /\ [](\A ch \in Monitored, id \in 1..MaxMsg :
          FindIndex(forwardedHistory, id) = -1 =>
            IF MapHas(warningMessageMap, id)
              THEN StartDeleted(ch, id) =
                     [IdleDel EXCEPT
                        !.pc = "delWarning", !.channelId = ch, !.messageId = id,
                        !.warningMessageId = MapGet(warningMessageMap, id),
                        !.calls = <<<<ch, MapGet(warningMessageMap, id)>>>>]
              ELSE StartDeleted(ch, id) = IdleDel)
  /\ [][\A d \in 1..MaxDel, ok \in BOOLEAN, id \in 1..MaxMsg :
          (WarningDeleted(d, ok) /\ del[d].messageId = id) =>
             /\ ~MapHas(warningMessageMap', id)
             /\ \A i \in 1..Len(warningMessageMap) :
                  warningMessageMap[i].key # id =>
                    \E j \in 1..Len(warningMessageMap') :
                      warningMessageMap'[j] = warningMessageMap[i]
             /\ Len(warningMessageMap') <= Len(warningMessageMap)
             /\ del'[d] = IdleDel
             /\ UNCHANGED <<forwardedHistory, msg>>]_vars

\* a handler that found no entry of the ledger for its id waits for the
\* delete of the warning message, the one call it has made, the mapping
\* still in the warning map
C14_Witness ==
  \E d \in 1..MaxDel :
    /\ del[d].pc = "delWarning"
    /\ del[d].entryIndex = -1
    /\ del[d].calls = <<<<"g1", WarningId(del[d].messageId)>>>>
    /\ MapHas(warningMessageMap, del[d].messageId)

\* C15: a message from a channel that is not monitored has no effect: its
\* handler returns at the first guard without having reached an await (no
\* HTTP call, no send), and the ledger and the warning map are unchanged; the
\* same holds of a message that a later guard rejects.  A handler that
\* returned at a guard does nothing afterwards, and its message never has an
\* entry of the ledger or of the warning map.
C15_RejectedHasNoEffect ==
  /\ [](\A m \in 1..MaxMsg :
          msg[m].pc \in GuardReturns =>
            /\ msg[m] = EndMsg(msg[m].pc)
            /\ FindIndex(forwardedHistory, m) = -1
            /\ ~MapHas(warningMessageMap, m))
  /\ [][\A m \in 1..MaxMsg :
          /\ msg[m].pc \in GuardReturns => msg'[m] = msg[m]
          /\ (msg[m].pc # msg'[m].pc /\ msg'[m].pc \in GuardReturns) =>
               /\ msg[m].pc = "idle"
               /\ UNCHANGED <<forwardedHistory, warningMessageMap, del>>
          /\ (msg[m].pc = "idle" /\ msg'[m].pc # "idle") =>
               \A ch \in Channels, c \in 1..Len(Contents), now \in Clocks :
                 (OnMessage(m, ch, c, now)
                  /\ (ch \notin Monitored \/ Guarded[ch, c, now].returned # "")) =>
                    /\ msg'[m].pc \in GuardReturns
                    /\ ch \notin Monitored => msg'[m].pc = "unmonitored"
                    /\ UNCHANGED <<forwardedHistory, warningMessageMap, del>>]_vars

\* with an entry in the ledger, one message has been rejected because its
\* channel is not monitored and another one by a later guard
C15_Witness ==
  /\ forwardedHistory # <<>>
  /\ \E m, k \in 1..MaxMsg :
       /\ msg[m].pc = "unmonitored"
       /\ msg[k].pc \in GuardReturns \ {"unmonitored"}

\* extractAllRoomIds(session.content) for the texts of the model, computed once
RoomIdsOf == [c \in 1..Len(Contents) |-> extractAllRoomIds(Contents[c])]

\* the texts with a strong context cue after preprocessing
StrongTexts ==
  {c \in 1..Len(Contents) : HasStrongContext(preprocessChineseNumerals(Contents[c]))}

\* parseEventFromText(preprocessedMessage) for the texts of the model, computed once
ParsedOf ==
  [c \in 1..Len(Contents), now \in Clocks |->
     parseEventFromText(preprocessChineseNumerals(Contents[c]), now)]

\* C16: a message goes on to the enrichment only if extractAllRoomIds returns
\* exactly one id for its text, and then with that id; when it returns no id
\* or two or more distinct ids, the handler returns at a guard: no lookup, no
\* forward, no entry, the ledger and the warning map unchanged.  Every running
\* handler and every entry of the ledger has the one room id of some text.
C16_ExactlyOneRoomId ==
  /\ [](/\ \A m \in 1..MaxMsg :
             msg[m].pc \in MsgAwaits =>
               \E c \in 1..Len(Contents) : RoomIdsOf[c] = {msg[m].roomId}
        /\ \A i \in 1..Len(forwardedHistory) :
             \E c \in 1..Len(Contents) : RoomIdsOf[c] = {forwardedHistory[i].roomId}
        /\ \A m \in 1..MaxMsg :
             msg[m].pc = "roomIds" =>
               FindIndex(forwardedHistory, m) = -1 /\ ~MapHas(warningMessageMap, m))
  /\ [][\A m \in 1..MaxMsg :
          (msg[m].pc = "idle" /\ msg'[m].pc # "idle") =>
            \A ch \in Monitored, c \in 1..Len(Contents), now \in Clocks :
              OnMessage(m, ch, c, now) =>
                IF Cardinality(RoomIdsOf[c]) = 1
                  THEN msg'[m].pc \in MsgAwaits => RoomIdsOf[c] = {msg'[m].roomId}
                  ELSE /\ msg'[m].pc \in GuardReturns
                       /\ UNCHANGED <<forwardedHistory, warningMessageMap>>]_vars

\* the texts include one without a room id and one with two room ids, both
\* otherwise acceptable, and with an entry in the ledger a handler has
\* returned at the room id guard
C16_Witness ==
  /\ \E c \in 1..Len(Contents) :
       RoomIdsOf[c] = {} /\ HasStrongContext(Contents[c])
  /\ \E c \in 1..Len(Contents) :
       Cardinality(RoomIdsOf[c]) = 2 /\ HasStrongContext(Contents[c])
  /\ forwardedHistory # <<>>
  /\ \E m \in 1..MaxMsg : msg[m].pc = "roomIds"

\* the texts that contain a hard rejection keyword
HardTexts ==
  {c \in 1..Len(Contents) :
     \E k \in HARD_REJECTION_KEYWORDS : Includes(Contents[c], k)}

\* C17: a message whose text contains a hard rejection keyword is never
\* forwarded: its handler returns at the hard rejection guard, before any
\* lookup, send or write, also when the text has an override keyword, one
\* room id, a time and a reward; the message never has an entry.
C17_HardRejectionFinal ==
  /\ [](\A m \in 1..MaxMsg :
          msg[m].pc = "hardRejected" =>
            FindIndex(forwardedHistory, m) = -1 /\ ~MapHas(warningMessageMap, m))
  /\ [][\A m \in 1..MaxMsg :
          /\ msg[m].pc = "hardRejected" => msg'[m] = msg[m]
          /\ (msg[m].pc = "idle" /\ msg'[m].pc # "idle") =>
               \A ch \in Monitored, c \in HardTexts, now \in Clocks :
                 OnMessage(m, ch, c, now) =>
                   /\ msg'[m] = EndMsg("hardRejected")
                   /\ UNCHANGED <<forwardedHistory, warningMessageMap, del>>]_vars

\* a text with a hard rejection keyword has an override keyword, one room
\* id, a time and a reward, and a handler has returned at the hard rejection
\* guard while the ledger holds an entry
C17_Witness ==
  /\ \E c \in HardTexts, now \in Clocks :
       /\ \E k \in OVERRIDE_KEYWORDS : Includes(Contents[c], k)
       /\ Cardinality(RoomIdsOf[c]) = 1
       /\ ParsedOf[c, now] # <<>>
       /\ ParsedOf[c, now][1].dateTime # TimeUnknown
       /\ Guarded["g1", c, now].returned = "hardRejected"
  /\ forwardedHistory # <<>>
  /\ \E m \in 1..MaxMsg : msg[m].pc = "hardRejected"

\* the texts that contain a soft rejection keyword after preprocessing
SoftTexts ==
  {c \in 1..Len(Contents) :
     \E k \in REJECTION_KEYWORDS : Includes(preprocessChineseNumerals(Contents[c]), k)}

\* the texts that contain an override keyword after preprocessing
OverrideTexts ==
  {c \in 1..Len(Contents) :
     \E k \in OVERRIDE_KEYWORDS : Includes(preprocessChineseNumerals(Contents[c]), k)}

\* the guards before the soft rejection guard
EarlierThanSoft == {"unmonitored", "blank", "hardRejected", "noTrigger", "roomIds"}

\* C18: a message whose text contains a soft rejection keyword is rejected
\* when it contains no override keyword: its handler returns at the soft
\* rejection guard (or at an earlier one) and changes nothing.  When it
\* contains an override keyword the soft rejection guard lets it pass: the
\* handler does not return there, and it goes on exactly when the text
\* parses to an event that the context guard accepts.
C18_SoftRejectionUnlessOverride ==
  /\ [](\A m \in 1..MaxMsg :
          msg[m].pc = "softRejected" =>
            FindIndex(forwardedHistory, m) = -1 /\ ~MapHas(warningMessageMap, m))
  /\ [][\A m \in 1..MaxMsg :
          (msg[m].pc = "idle" /\ msg'[m].pc # "idle") =>
            \A ch \in Monitored, c \in SoftTexts, now \in Clocks :
              OnMessage(m, ch, c, now) =>
                IF c \in OverrideTexts
                  THEN /\ msg'[m].pc # "softRejected"
                       /\ msg'[m].pc \notin EarlierThanSoft =>
                            ((msg'[m].pc \notin GuardReturns)
                               <=> /\ ParsedOf[c, now] # <<>>
                                   /\ \/ c \in StrongTexts
                                      \/ ParsedOf[c, now][1].dateTime # TimeUnknown)
                  ELSE /\ msg'[m].pc \in EarlierThanSoft \cup {"softRejected"}
                       /\ msg'[m] = EndMsg(msg'[m].pc)
                       /\ UNCHANGED <<forwardedHistory, warningMessageMap, del>>]_vars

\* among the texts one has a soft rejection keyword and no override keyword
\* and returns at the soft rejection guard, another has both and passes every
\* guard; a handler has returned at the soft rejection guard and another one,
\* with the key of the overridden text, waits for its lookup
C18_Witness ==
  \E c1 \in SoftTexts \ OverrideTexts, c2 \in SoftTexts \cap OverrideTexts,
     now \in Clocks :
    /\ Guarded["g1", c1, now].returned = "softRejected"
    /\ Guarded["g1", c2, now].returned = ""
    /\ \E m, k \in 1..MaxMsg :
         /\ msg[m].pc = "softRejected"
         /\ msg[k].pc = "roomInfo"
         /\ msg[k].roomId = Guarded["g1", c2, now].roomId
         /\ msg[k].dateTime = Guarded["g1", c2, now].dateTime

\* the text has a number of two or three digits immediately followed by +
HasCheckInNumber(t) ==
  \E i \in 1..Len(t) :
    /\ IsDigitAt(t, i) /\ ~IsDigitAt(t, i - 1)
    /\ RunLen(t, i, Digit) \in 2..3
    /\ i + RunLen(t, i, Digit) <= Len(t)
    /\ t[i + RunLen(t, i, Digit)] = "+"

\* the texts with such a number
CheckInNumberTexts == {c \in 1..Len(Contents) : HasCheckInNumber(Contents[c])}

\* C19: a message whose text contains a number of two or three digits
\* immediately followed by + is rejected, whatever else it contains: its
\* handler returns at a guard and changes nothing.
C19_CheckInNumberRejected ==
  [][\A m \in 1..MaxMsg :
       (msg[m].pc = "idle" /\ msg'[m].pc # "idle") =>
         \A ch \in Monitored, c \in CheckInNumberTexts, now \in Clocks :
           OnMessage(m, ch, c, now) =>
             /\ msg'[m].pc \in GuardReturns
             /\ UNCHANGED <<forwardedHistory, warningMessageMap, del>>]_vars

\* some text with a strong context cue passes every guard with this key
StrongSource(roomId, dateTime) ==
  \E ch \in Monitored, c \in StrongTexts, now \in Clocks :
    Guarded[ch, c, now] = [returned |-> "", roomId |-> roomId, dateTime |-> dateTime]

\* C20: a message whose text has no strong context cue (神金, 发, w) and no
\* recognised time is not forwarded: its handler returns at a guard and
\* changes nothing.  A handler that goes on with the dateTime 时间未知 was
\* started by a text with a strong context cue, so every running handler and
\* every entry of the ledger with that dateTime has the key of such a text.
C20_ContextOrTime ==
  /\ [](/\ \A m \in 1..MaxMsg :
             (msg[m].pc \in MsgAwaits /\ msg[m].dateTime = TimeUnknown) =>
               StrongSource(msg[m].roomId, msg[m].dateTime)
        /\ \A i \in 1..Len(forwardedHistory) :
             forwardedHistory[i].dateTime = TimeUnknown =>
               StrongSource(forwardedHistory[i].roomId, forwardedHistory[i].dateTime)
        /\ \A m \in 1..MaxMsg :
             msg[m].pc = "weakContext" =>
               FindIndex(forwardedHistory, m) = -1 /\ ~MapHas(warningMessageMap, m))
  /\ [][\A m \in 1..MaxMsg :
          (msg[m].pc = "idle" /\ msg'[m].pc # "idle") =>
            \A ch \in Monitored, c \in 1..Len(Contents) \ StrongTexts, now \in Clocks :
              OnMessage(m, ch, c, now) =>
                /\ (msg'[m].pc \in MsgAwaits => msg'[m].dateTime # TimeUnknown)
                /\ (ParsedOf[c, now] = <<>> \/ ParsedOf[c, now][1].dateTime = TimeUnknown) =>
                     /\ msg'[m].pc \in GuardReturns
                     /\ UNCHANGED <<forwardedHistory, warningMessageMap, del>>]_vars

\* a text with a reward, one room id, no strong context cue and no time
\* returns at the context guard, and a text without a cue but with a time
\* passes; a handler has returned at the context guard, the ledger holds an
\* entry with the dateTime 时间未知, and a handler with a known time waits
C20_Witness ==
  /\ \E c \in 1..Len(Contents) \ StrongTexts, now \in Clocks :
       /\ ParsedOf[c, now] # <<>>
       /\ ParsedOf[c, now][1].dateTime = TimeUnknown
       /\ Guarded["g1", c, now].returned = "weakContext"
  /\ \E c \in 1..Len(Contents) \ StrongTexts, now \in Clocks :
       /\ Guarded["g1", c, now].returned = ""
       /\ \E m \in 1..MaxMsg :
            /\ msg[m].pc = "roomInfo"
            /\ msg[m].roomId = Guarded["g1", c, now].roomId
            /\ msg[m].dateTime = Guarded["g1", c, now].dateTime
  /\ \E m \in 1..MaxMsg : msg[m].pc = "weakContext"
  /\ \E i \in 1..Len(forwardedHistory) : forwardedHistory[i].dateTime = TimeUnknown

\* C21: whatever the danmaku POST after a successful forward does (code 0,
\* another code, a network error), the handler ends normally: the ledger is
\* unchanged by that step, so the entry recorded for the forward stays, and
\* no failure notice is sent to the source channel.
C21_DanmakuNeverFailsForward ==
  /\ [](\A m \in 1..MaxMsg : msg[m].pc = "forwarded" => ~msg[m].failureNotice)
  /\ [][\A m \in 1..MaxMsg, outcome \in DanmakuOutcomes :
          DanmakuSent(m, outcome) =>
            /\ msg'[m] = EndMsg("forwarded")
            /\ ~msg'[m].failureNotice
            /\ forwardedHistory' = forwardedHistory
            /\ FindIndex(forwardedHistory, m) # -1 => FindIndex(forwardedHistory', m) # -1]_vars

\* the handler of a message has ended after its danmaku POST, and the entry
\* recorded for its forward is in the ledger
C21_Witness ==
  \E m \in 1..MaxMsg :
    /\ msg[m].pc = "forwarded"
    /\ FindIndex(forwardedHistory, m) # -1
    /\ forwardedHistory[FindIndex(forwardedHistory, m)].forwardedMessageId = ForwardId(m)

\* C22: when the danmaku POST returns a code other than 0 with a message that
\* reports a rate limit, the POST to the same room is retried (the handler is
\* at the danmaku await again); any other response ends the attempt.
C22_RateLimitRetried ==
  [][\A m \in 1..MaxMsg, outcome \in DanmakuOutcomes :
       DanmakuSent(m, outcome) =>
         IF outcome = "rateLimited" THEN msg'[m].pc = "danmaku"
                                    ELSE msg'[m].pc = "forwarded"]_vars

\* C23: preprocessChineseNumerals replaces the standard word form of every
\* integer n in 0..99,999,999 by the decimal string of n, the text around the
\* word form unchanged.
C23_WordFormToDecimal ==
  call.fn = "preprocessChineseNumerals" =>
    \A n \in Numbers :
      /\ call.text = WordForm(n) => call.result = ToStr(n)
      /\ call.text = <<"fa">> \o WordForm(n) \o <<"w">> =>
           call.result = <<"fa">> \o ToStr(n) \o <<"w">>


\* C24: when the text holds exactly one labelled id, extractAllRoomIds returns
\* exactly that id, whatever standalone digit sequences the text also holds
C24_LabelledIdAlone ==
  call.fn = "extractAllRoomIds" =>
    LET Alone(labelled) == Cardinality(labelled) = 1 => call.result = labelled
    IN  Alone(LabelledIds(StripTags(call.text)))

\* the amounts of the rewards of a text, as strings
AmountStrings(text) ==
  LET found(rewards) == {ToStr(rewards[i].amount) : i \in 1..Len(rewards)}
  IN  found(extractRewards(text))

\* C25: with no labelled id and two standalone candidates of unequal length,
\* neither of them a reward amount, extractAllRoomIds returns only the longer
C25_LongerCandidateOnly ==
  call.fn = "extractAllRoomIds" =>
    LET Longer(labelled, candidates, amounts) ==
          (/\ labelled = {}
           /\ Cardinality(candidates) = 2
           /\ \E a, b \in candidates : Len(a) > Len(b)
           /\ candidates \cap amounts = {})
            => \E a \in candidates :
                 /\ \A b \in candidates : Len(b) <= Len(a)
                 /\ call.result = {a}
    IN  Longer(LabelledIds(StripTags(call.text)), StandaloneIds(StripTags(call.text)),
               AmountStrings(call.text))

\* C26: no amount appears twice in the rewards of a parsed event, whether the
\* two occurrences are on one line or on two
C26_NoAmountTwice ==
  (call.fn = "parseEventFromText" /\ call.result # <<>>) =>
    LET Distinct(rewards) ==
          \A i, j \in 1..Len(rewards) : i # j => rewards[i].amount # rewards[j].amount
    IN  Distinct(call.result[1].rewards)


\* C27: when the delete calls of a message-deleted handler have settled, the
\* ledger is the ledger of the moment before without the entry of the deleted
\* message: that entry is gone and every other entry is still in its place,
\* whatever was pushed, evicted or removed while the calls were pending
C27_ExactlyTheEntryRemoved ==
  [][\A d \in 1..MaxDel :
       (del[d].pc = "delForward" /\ del'[d] # del[d]) =>
         LET NotDeleted(entry) == entry.originalMessageId # del[d].messageId
         IN  forwardedHistory' = SelectSeq(forwardedHistory, NotDeleted)]_vars


\* C29: for a line that states only a minute, <k>分, read at wall clock h:m,
\* the hour of the result is (h + 1) mod 24 when m is greater than k and h
\* otherwise; it is in 0..23, so 23 rolls over to 00, and the result is the
\* two-digit hour, a colon and the two-digit minute
C29_MinutesOnlyHour ==
  call.fn = "extractDateTime" =>
    \A k \in 0..59 :
      call.text = ToStr(k) \o <<"fen">> =>
        LET hour == IF call.now.minutes > k THEN (call.now.hours + 1) % 24
                    ELSE call.now.hours
        IN  /\ hour \in 0..23
            /\ call.result = PadStart2(ToStr(hour)) \o <<":">> \o PadStart2(ToStr(k))

\* 5分 read at 23:50 is 00:05
C29_Witness ==
  /\ call.fn = "extractDateTime"
  /\ call.text = <<"5", "fen">>
  /\ call.now = [hours |-> 23, minutes |-> 50]
  /\ call.result = <<"0", "0", ":", "0", "5">>


\* the number of rewards of the non-blank lines before line i
RECURSIVE RewardsBefore(_, _)
RewardsBefore(lines, i) ==
  IF i <= 1 THEN 0
  ELSE RewardsBefore(lines, i - 1)
         + (IF IsBlank(lines[i - 1]) THEN 0 ELSE Len(extractRewards(lines[i - 1])))

\* C28: parseEventFromText returns an event exactly when some non-blank line
\* has a reward; the rewards of the event are the rewards of the non-blank
\* lines, line after line, and its dateTime is the time of the first non-blank
\* line that states one, or 时间未知 when no line does
C28_EventOfLines ==
  call.fn = "parseEventFromText" =>
    \A lines \in LineSeqs :
      call.text = Join(lines) =>
        LET nonBlank == {i \in 1..Len(lines) : ~IsBlank(lines[i])}
            timed == {i \in nonBlank : extractDateTime(lines[i], call.now) # Null}
        IN  /\ call.result # <<>> <=> \E i \in nonBlank : extractRewards(lines[i]) # <<>>
            /\ call.result # <<>> =>
                 /\ Len(call.result[1].rewards) = RewardsBefore(lines, Len(lines) + 1)
                 /\ \A i \in nonBlank : \A j \in 1..Len(extractRewards(lines[i])) :
                      call.result[1].rewards[RewardsBefore(lines, i) + j]
                        = extractRewards(lines[i])[j]
                 /\ call.result[1].dateTime =
                      IF timed = {} THEN TimeUnknown
                      ELSE extractDateTime(lines[First(timed)], call.now)

\* an event of three lines: the first is blank, the second has a reward and no
\* time, the third has another reward and the time of the event
C28_Witness ==
  /\ call.fn = "parseEventFromText"
  /\ call.result # <<>>
  /\ \E lines \in LineSeqs :
       /\ call.text = Join(lines)
       /\ Len(lines) = 3
       /\ IsBlank(lines[1])
       /\ extractRewards(lines[2]) # <<>>
       /\ extractDateTime(lines[2], call.now) = Null
       /\ extractRewards(lines[3]) # <<>>
       /\ call.result[1].dateTime = extractDateTime(lines[3], call.now)
       /\ call.result[1].rewards = extractRewards(lines[2]) \o extractRewards(lines[3])


\* the (roomId, dateTime) pairs of the messages that pass the guards
AdmittedTexts ==
  {t \in Monitored \X (1..Len(Contents)) \X Clocks : Admitted[t[1], t[2], t[3]] # <<>>}

AdmittedKeys == {Admitted[t[1], t[2], t[3]][1] : t \in AdmittedTexts}

\* the ways a handler that has passed the duplicate check ends without a push
FailedEnds == {"noInfo", "threw", "failed"}

C31_UnmonitoredDeletionIgnored ==
  /\ \A ch \in Channels \ Monitored, id \in 1..MaxMsg : StartDeleted(ch, id) = IdleDel
  /\ \A d \in 1..MaxDel :
       del[d].pc \in DelAwaits =>
         /\ del[d].channelId \in Monitored
         /\ \A i \in 1..Len(del[d].calls) : del[d].calls[i][1] \in Monitored \cup {targetQQ}

\* the ledger holds the entry of one message and the warning map the mapping
\* of another, no handler is running, and a notification for either id from
\* the channel that is not monitored would return at once
C31_Witness ==
  \E id, key \in 1..MaxMsg :
    /\ FindIndex(forwardedHistory, id) # -1
    /\ MapHas(warningMessageMap, key)
    /\ InFlight = 0
    /\ StartDeleted("other", id) = IdleDel
    /\ StartDeleted("other", key) = IdleDel

\* C32: no message id is at once the originalMessageId of an entry of the
\* ledger and a key of the warning map, and no two entries of the ledger have
\* the same originalMessageId; so a handler of a deletion notification acts in
\* one case only: one that deletes a warning found no entry and has made that
\* one call, and one that found an entry makes no call for a warning.
C32_OneCasePerDeletion ==
  /\ [](/\ \A id \in 1..MaxMsg :
             ~(FindIndex(forwardedHistory, id) # -1 /\ MapHas(warningMessageMap, id))
        /\ \A i, j \in 1..Len(forwardedHistory) :
             forwardedHistory[i].originalMessageId = forwardedHistory[j].originalMessageId
               => i = j
        /\ \A d \in 1..MaxDel :
             /\ del[d].pc = "delWarning" => del[d].entryIndex = -1 /\ Len(del[d].calls) = 1
             /\ del[d].pc \in {"delHelper", "delForward"} =>
                  ~MapHas(warningMessageMap, del[d].messageId))
  /\ [][\A d \in 1..MaxDel :
          (del[d].pc = "delForward" /\ del'[d] # del[d]) => del'[d] = IdleDel]_vars

\* a handler that found the entry of its message waits for the delete of the
\* forwarded copy while the warning map holds the mapping of another message
C32_Witness ==
  \E d \in 1..MaxDel :
    /\ del[d].pc = "delForward"
    /\ FindIndex(forwardedHistory, del[d].messageId) = del[d].entryIndex
    /\ warningMessageMap # <<>>
    /\ ~MapHas(warningMessageMap, del[d].messageId)

=============================================================================
